---- MODULE Spec2Model ----
(***************************************************************************)
(* Verification model of auto-suno-app.  Every part has its own variables  *)
(* and its own specifications; all of them start from Init.                *)
(*                                                                         *)
(* Part 1: QueueManager (src/src/core/queue_manager.py), the allocator of  *)
(* prompt ranges to per-account queue entries, together with the           *)
(* QueueEntry record (src/src/models/data_models.py) and the state         *)
(* document written by _save_state.                                        *)
(***************************************************************************)
EXTENDS Integers, Sequences, FiniteSets, TLC

(***************************************************************************)
(* Bounds of the model.                                                    *)
(***************************************************************************)
\* longest prompt pool a caller passes
MaxPoolLen == 3
\* number of queue entries ever created (uuid4 values handed out)
MaxEntries == 3
\* the same number where every progress update is explored
MaxProgressEntries == 2
\* number of documents handed to each of the two JSON writers
MaxDocs == 3
\* longest prompt list handed to create_songs_batch
MaxBatchLen == 4
\* number of records ever added to the history store by hand
MaxRecords == 3
\* clip ids of a download source are 1..MaxClipId
MaxClipId == 2
\* a page of a download source holds at most this many clips
MaxPageLen == 2
\* a download source has at most this many non-empty pages
MaxSourcePages == 2
\* the API client's history keeps the last MaxWindow responses
MaxWindow == 4
\* a queue entry holds at most this many prompts when its sessions are planned
MaxPrompts == 45
\* songs waiting for an id in the panel at one time
MaxPending == 2
\* clips the feeds of the accounts serve, all together
MaxFeedLen == 2
\* songs the engine reports to the panel
MaxReports == 2
\* drivers made by one BatchSongCreator
MaxDrivers == 3

\* SunoApiClient: the rate-limit wait after __init__ and after a 200, what a
\* 429 adds to it, and its cap; the status of an attempt without a response
RateLimitBase == 10
RateLimitIncrement == 5
RateLimitCeiling == 60
NoResponse == 0

\* the accounts whose songs the panel reconciles
ReconAccounts == {"acc1", "acc2"}

\* no _refresh_pending_status has run since the last other call
NoPoll == [some |-> FALSE, before |-> <<>>, got |-> {}, found |-> <<>>,
           marked |-> <<>>, usedBefore |-> {}]

(***************************************************************************)
(* Input domains.                                                          *)
(***************************************************************************)
\* a SunoPrompt is a dataclass of three strings compared by value; two
\* distinct values suffice to build pools that differ in content, in length,
\* or in both.  songB has no lyrics (CREATE_QUEUE fills missing fields with "")
songA == [title |-> "A", lyrics |-> "la la", style |-> "Pop"]
songB == [title |-> "B", lyrics |-> "", style |-> "Pop"]

\* pools that callers pass as the prompts argument: the empty list, the
\* pools songA, songA songB, songA songB songB, ... of every length (they
\* share prefixes and differ in length), and one pool of the greatest length
\* with other content
Pools ==
    {<<>>} \cup
    { [i \in 1..n |-> IF i = 1 THEN songA ELSE songB] : n \in 1..MaxPoolLen } \cup
    { [i \in 1..MaxPoolLen |-> songB] }

\* the account name is stored in the entry and never read by the manager
Accounts == {"acc1"}

\* total_songs / songs_per_batch arguments, including non-positive values and
\* values larger than any pool
TotalSongsArgs == 0..(MaxPoolLen + 1)
SongsPerBatchArgs == 0..2

\* Python None for the optional status argument of update_queue_progress
None == "None"

\* Optional[int]: None, or an integer
NoneInt == [some |-> FALSE, v |-> 0]
SomeInt(n) == [some |-> TRUE, v |-> n]

\* completed_count arguments: omitted, negative, in range, above any total
CompletedArgs == {NoneInt, SomeInt(-1), SomeInt(1), SomeInt(MaxPoolLen + 1)}

\* the four statuses of the data model
QueueStatuses == {"pending", "in_progress", "completed", "failed"}

\* status arguments: omitted, empty string, statuses the runner passes, and a
\* string outside the data model (the UPDATE_QUEUE_PROGRESS command hands
\* payload.get('status') to update_queue_progress as it is)
StatusArgs == {None, "", "in_progress", "completed", "failed", "paused"}

\* the update the queue runner makes when every song of an entry succeeded:
\* a count that reaches the entry's total (stored as that total) and the
\* status completed
RunnerUpdates == {<<SomeInt(MaxPoolLen + 1), "completed">>}

\* the pool and the sizes of the entries whose progress is explored
ProgressPool == [i \in 1..MaxPoolLen |-> IF i = 1 THEN songA ELSE songB]
ProgressTotals == 1..2

\* queue ids that callers pass: every id that can exist
QueueIds == 1..MaxEntries

VARIABLES
    prompts,        \* QueueManager.prompts: the stored pool
    prompt_cursor,  \* QueueManager.prompt_cursor
    queues,         \* QueueManager.queues: id -> QueueEntry
    nextId,         \* next fresh uuid4 value
    disk,           \* content of the state file
    lastCall,       \* the last public call and what it returned or raised
    createdSinceClear,  \* history: sum of total_songs of entries created since the last clear()
    createdSincePool,   \* history: the same sum since the pool was last adopted or cleared
    burned          \* history: ranges of entries removed since the pool was last adopted or cleared

queueVars == <<prompts, prompt_cursor, queues, nextId, disk, lastCall,
               createdSinceClear, createdSincePool, burned>>

VARIABLES
    queueDocFile,   \* the queue state file as it is on the disk: [kind, doc]
    tempFile,       \* the temporary file atomic_write_json creates next to it
    historyDocFile, \* the download history file as it is on the disk
    writePc,        \* where atomic_write_json and save_json are: [step, data, old]
    killed          \* the process was killed

writeVars == <<queueDocFile, tempFile, historyDocFile, writePc, killed>>

VARIABLES
    threadPc,       \* per thread: the statement of add_queue_entry it is at
    frame           \* per thread: the locals of its add_queue_entry call

raceVars == <<threadPc, frame>>

VARIABLES
    batchPc,        \* where create_songs_batch is
    batchCall,      \* its arguments
    driver,         \* BatchSongCreator.driver is set
    loop,           \* locals: session_index, prompt_index, completed_songs, tabs, success
    results,        \* results of create_songs_batch
    session_results,    \* results of the running _run_session
    callbacks,      \* the calls of progress_callback, in order
    sessionLog,     \* history: the prompts handed to each _run_session and how it ended
    stopCalled,     \* history: stop() was called
    lateTab         \* history: the tab at hand was begun after stop() was called

batchVars == <<batchPc, batchCall, driver, loop, results, session_results,
               callbacks, sessionLog, stopCalled, lateTab>>

VARIABLES
    records,        \* SongCreationHistoryManager.records, newest first
    recordsFile,    \* content of the song creation history file
    historyOut      \* the last call of the history store: [op, value]

historyVars == <<records, recordsFile, historyOut>>

VARIABLES
    download_history,   \* DownloadManager.histories[account], a DownloadHistory
    downloadFile,       \* the account's entry of the download history file
    dlPc,               \* where batch_download_paginated is
    dlCall,             \* its arguments and the source it reads
    dlLoop,             \* locals: current_page, pages_processed, clips, idx, has_more
    stats,              \* locals: the counts it returns
    dlLog,              \* history: what the call did, in order
    startIds,           \* history: the dedup set when the call began
    prevRun             \* history: the run before this one, when this is a re-run

downloadVars == <<download_history, downloadFile, dlPc, dlCall, dlLoop, stats,
                  dlLog, startIds, prevRun>>

VARIABLES
    rate_limit_wait,    \* SunoApiClient._rate_limit_wait
    window,             \* history: the last responses, each with the wait it caused
    lastRequest         \* history: attempts, result and wait of the last _make_request

apiVars == <<rate_limit_wait, window, lastRequest>>

VARIABLES
    plan,               \* _run_queue_thread: len(queue_prompts), session_count, songs_per_session
    tierRun,            \* the engine on that plan: sessions begun, tabs of the last one
    runEntry            \* _run_queue_thread: the prompts_range of the entry it runs

panelVars == <<plan, tierRun, runEntry>>

VARIABLES
    runResult           \* _run_queue_thread: what it stored for the entry it ran

VARIABLES
    pending_songs,      \* MultipleSongsPanel.pending_songs
    matched_song_ids,   \* MultipleSongsPanel.matched_song_ids
    feed,               \* what /feed/v2 serves for each account, newest first
    usedIds,            \* history: the clip ids given to a song since the process began
    lastPoll            \* history: the last _refresh_pending_status, before and after

reconVars == <<pending_songs, matched_song_ids, feed, usedIds, lastPoll>>

VARIABLES
    drv,                \* BatchSongCreator.driver: 0 for None, else the driver made
    made,               \* the drivers made so far
    quitPc,             \* where the worker and the UI thread are
    quits,              \* history: the quit() calls each driver received
    derefNone           \* history: a thread called quit() on None

quitVars == <<drv, made, quitPc, quits, derefNone>>

vars == <<queueVars, writeVars, raceVars, batchVars, historyVars, downloadVars,
          apiVars, panelVars, runResult, reconVars, quitVars>>

\* a step of the Queue Manager leaves everything else alone
OnlyQueue ==
    UNCHANGED <<writeVars, raceVars, batchVars, historyVars, downloadVars, apiVars,
                panelVars, runResult, reconVars, quitVars>>

\* so does a step of a JSON writer
OnlyWrite ==
    UNCHANGED <<queueVars, raceVars, batchVars, historyVars, downloadVars, apiVars,
                panelVars, runResult, reconVars, quitVars>>

\* a step of the batch creator touches its own state and the history store
OnlyBatch ==
    UNCHANGED <<queueVars, writeVars, raceVars, historyOut, downloadVars, apiVars,
                panelVars, runResult, reconVars, quitVars>>

\* a step of the history store
OnlyHistory ==
    UNCHANGED <<queueVars, writeVars, raceVars, batchVars, downloadVars, apiVars,
                panelVars, runResult, reconVars, quitVars>>

\* a step of the download manager
OnlyDownload ==
    UNCHANGED <<queueVars, writeVars, raceVars, batchVars, historyVars, apiVars,
                panelVars, runResult, reconVars, quitVars>>

\* a step of the session planning of the panel
OnlyPanel ==
    UNCHANGED <<queueVars, writeVars, raceVars, batchVars, historyVars, downloadVars,
                apiVars, runResult, reconVars, quitVars>>

\* a step of the API client
OnlyApi ==
    UNCHANGED <<queueVars, writeVars, raceVars, batchVars, historyVars, downloadVars,
                panelVars, runResult, reconVars, quitVars>>

\* a step of the reconciliation of the panel, which says itself what
\* becomes of the history store
OnlyRecon ==
    UNCHANGED <<queueVars, writeVars, raceVars, batchVars, downloadVars,
                apiVars, panelVars, runResult, quitVars>>

\* a step of a thread that holds the driver
OnlyQuit ==
    UNCHANGED <<queueVars, writeVars, raceVars, batchVars, historyVars, downloadVars,
                apiVars, panelVars, runResult, reconVars>>

(***************************************************************************)
(* Helpers.                                                                *)
(***************************************************************************)
Min(a, b) == IF a <= b THEN a ELSE b

\* QueueEntry(...) as constructed by add_queue_entry: status and
\* completed_count take the dataclass defaults
QueueEntry(id, account_name, total_songs, songs_per_batch, prompts_range) ==
    [ id |-> id,
      account_name |-> account_name,
      total_songs |-> total_songs,
      songs_per_batch |-> songs_per_batch,
      prompts_range |-> prompts_range,
      status |-> "pending",
      completed_count |-> 0 ]

\* self.queue_manager.prompts[start:end], the prompts an entry's range resolves
\* to when the runner executes it (a Python slice stops at the end of the list)
queue_prompts(ps, prompts_range) ==
    SubSeq(ps, prompts_range[1] + 1, Min(prompts_range[2], Len(ps)))

\* len(self.prompts) - self.prompt_cursor
available_prompt_slots == Len(prompts) - prompt_cursor

\* the document _save_state writes: every prompt as a dict, the cursor, and
\* every entry's to_dict() (prompts_range as a list)
serialize_prompts(ps) ==
    [i \in 1..Len(ps) |->
        [title |-> ps[i].title, lyrics |-> ps[i].lyrics, style |-> ps[i].style]]

to_dict(entry) ==
    [ id |-> entry.id,
      account_name |-> entry.account_name,
      total_songs |-> entry.total_songs,
      songs_per_batch |-> entry.songs_per_batch,
      prompts_range |-> entry.prompts_range,
      status |-> entry.status,
      completed_count |-> entry.completed_count ]

save_state(ps, cursor, qs) ==
    [ prompts |-> serialize_prompts(ps),
      prompt_cursor |-> cursor,
      queues |-> [k \in DOMAIN qs |-> to_dict(qs[k])] ]

default_state ==
    [ prompts |-> <<>>, prompt_cursor |-> 0, queues |-> <<>> ]

\* what a call returned or raised: the exception class and message, the id of
\* the entry add_queue_entry returned, the bool remove/update returned
Raised(op, msg) ==
    [op |-> op, raised |-> "QueueValidationError", msg |-> msg, id |-> 0, ok |-> FALSE]
Returned(op, id, ok) ==
    [op |-> op, raised |-> "", msg |-> "", id |-> id, ok |-> ok]

\* variant: the pool is replaced even while entries exist
ensure_prompts_unguarded(ps) ==
    IF ps = <<>>
    THEN [msg |-> "At least one prompt is required to queue songs",
          prompts |-> prompts, prompt_cursor |-> prompt_cursor, adopted |-> FALSE]
    ELSE IF prompts = <<>> \/ prompts # ps
    THEN [msg |-> "", prompts |-> ps, prompt_cursor |-> 0, adopted |-> TRUE]
    ELSE [msg |-> "", prompts |-> prompts, prompt_cursor |-> prompt_cursor, adopted |-> FALSE]

\* _ensure_prompts: the message of the exception it raises ("" if none) and
\* the pool and cursor it leaves behind
ensure_prompts(ps) ==
    IF ps = <<>>
    THEN [msg |-> "At least one prompt is required to queue songs",
          prompts |-> prompts, prompt_cursor |-> prompt_cursor, adopted |-> FALSE]
    ELSE IF prompts # <<>> /\ prompts # ps /\ DOMAIN queues # {}
    THEN [msg |-> "Cannot switch prompts while queues exist",
          prompts |-> prompts, prompt_cursor |-> prompt_cursor, adopted |-> FALSE]
    ELSE IF prompts = <<>> \/ prompts # ps
    THEN [msg |-> "", prompts |-> ps, prompt_cursor |-> 0, adopted |-> TRUE]
    ELSE [msg |-> "", prompts |-> prompts, prompt_cursor |-> prompt_cursor, adopted |-> FALSE]

\* variant: the capacity check is missing
add_validation_no_capacity(cursor, poolLen, total_songs, songs_per_batch) ==
    IF total_songs <= 0 \/ songs_per_batch <= 0
    THEN "Song counts must be positive"
    ELSE IF songs_per_batch > total_songs
    THEN "Songs per batch cannot exceed total songs"
    ELSE ""

\* variant: a batch as large as the entry is rejected
add_validation_strict(cursor, poolLen, total_songs, songs_per_batch) ==
    IF total_songs <= 0 \/ songs_per_batch <= 0
    THEN "Song counts must be positive"
    ELSE IF songs_per_batch >= total_songs
    THEN "Songs per batch cannot exceed total songs"
    ELSE IF cursor + total_songs > poolLen
    THEN "Not enough prompts remain to fulfill request"
    ELSE ""

\* the checks of add_queue_entry that follow _ensure_prompts, made on the pool
\* of length poolLen and the cursor it left behind; "" when all pass
add_validation(cursor, poolLen, total_songs, songs_per_batch) ==
    IF total_songs <= 0 \/ songs_per_batch <= 0
    THEN "Song counts must be positive"
    ELSE IF songs_per_batch > total_songs
    THEN "Songs per batch cannot exceed total songs"
    ELSE IF cursor + total_songs > poolLen
    THEN "Not enough prompts remain to fulfill request"
    ELSE ""

\* variant: the range ends one prompt too far
new_entry_long(id, account_name, total_songs, songs_per_batch, cursor) ==
    QueueEntry(id, account_name, total_songs, songs_per_batch,
               <<cursor, cursor + total_songs + 1>>)

\* the entry add_queue_entry builds once every check has passed
new_entry(id, account_name, total_songs, songs_per_batch, cursor) ==
    QueueEntry(id, account_name, total_songs, songs_per_batch,
               <<cursor, cursor + total_songs>>)

\* variant: the cursor is not advanced
advance_cursor_stale(cursor, total_songs) == cursor

\* the cursor after a successful add_queue_entry
advance_cursor(cursor, total_songs) == cursor + total_songs

\* add_queue_entry as a function of the manager's state and the arguments:
\* what it raises or returns, and the state it leaves behind
add_result(account_name, total_songs, songs_per_batch, ps) ==
    LET e == ensure_prompts(ps)
        v == add_validation(e.prompt_cursor, Len(e.prompts), total_songs, songs_per_batch)
        entry == new_entry(nextId, account_name, total_songs, songs_per_batch,
                           e.prompt_cursor)
        qs == (nextId :> entry) @@ queues
        cur == advance_cursor(e.prompt_cursor, total_songs)
    IN  IF e.msg # ""
        THEN \* _ensure_prompts raised before touching anything
             [ call |-> Raised("add_queue_entry", e.msg), adopted |-> FALSE,
               prompts |-> prompts, prompt_cursor |-> prompt_cursor,
               queues |-> queues, disk |-> disk ]
        ELSE IF v # ""
        THEN \* a later check raised: what _ensure_prompts did stays in memory,
             \* nothing is saved
             [ call |-> Raised("add_queue_entry", v), adopted |-> e.adopted,
               prompts |-> e.prompts, prompt_cursor |-> e.prompt_cursor,
               queues |-> queues, disk |-> disk ]
        ELSE [ call |-> Returned("add_queue_entry", nextId, TRUE), adopted |-> e.adopted,
               prompts |-> e.prompts, prompt_cursor |-> cur,
               queues |-> qs, disk |-> save_state(e.prompts, cur, qs) ]

\* variant: removing an entry gives its prompts back
cursor_rolled_back(cursor, entry) == cursor - entry.total_songs

\* variant: removing the newest range gives its prompts back
cursor_reclaim_last(cursor, entry) ==
    IF entry.prompts_range[2] = cursor THEN entry.prompts_range[1] ELSE cursor

\* the cursor after remove_queue_entry deleted an entry: it stays
cursor_after_remove(cursor, entry) == cursor

\* remove_queue_entry as a function of the state and the argument
remove_result(queue_id) ==
    IF queue_id \notin DOMAIN queues
    THEN [ call |-> Returned("remove_queue_entry", 0, FALSE),
           prompt_cursor |-> prompt_cursor, queues |-> queues, disk |-> disk ]
    ELSE LET qs == [k \in DOMAIN queues \ {queue_id} |-> queues[k]]
             cur == cursor_after_remove(prompt_cursor, queues[queue_id])
         IN  [ call |-> Returned("remove_queue_entry", 0, TRUE),
               prompt_cursor |-> cur, queues |-> qs,
               disk |-> save_state(prompts, cur, qs) ]

\* variant: the count is stored as passed
clamp_completed_none(completed_count, entry) ==
    IF completed_count.some
    THEN completed_count.v
    ELSE entry.completed_count

\* the completed_count update_queue_progress stores
clamp_completed(completed_count, entry) ==
    IF completed_count.some
    THEN Min(completed_count.v, entry.total_songs)
    ELSE entry.completed_count

\* the status update_queue_progress stores: a falsy argument (None, "")
\* keeps the old one
store_status(status, entry) ==
    IF status # None /\ status # ""
    THEN status
    ELSE entry.status

\* update_queue_progress as a function of the state and the arguments
update_result(queue_id, completed_count, status) ==
    IF queue_id \notin DOMAIN queues
    THEN [ call |-> Returned("update_queue_progress", 0, FALSE),
           queues |-> queues, disk |-> disk ]
    ELSE LET entry == queues[queue_id]
             qs == [queues EXCEPT ![queue_id] =
                        [entry EXCEPT !.completed_count = clamp_completed(completed_count, entry),
                                      !.status = store_status(status, entry)]]
         IN  [ call |-> Returned("update_queue_progress", 0, TRUE),
               queues |-> qs, disk |-> save_state(prompts, prompt_cursor, qs) ]

(***************************************************************************)
(* Operations.                                                             *)
(***************************************************************************)
Init ==
    /\ prompts = <<>>
    /\ prompt_cursor = 0
    /\ queues = <<>>
    /\ nextId = 1
    /\ disk = default_state
    /\ lastCall = Returned("init", 0, TRUE)
    /\ createdSinceClear = 0
    /\ createdSincePool = 0
    /\ burned = {}
    /\ queueDocFile = [kind |-> "complete", doc |-> 0]
    /\ tempFile = [kind |-> "absent", doc |-> 0]
    /\ historyDocFile = [kind |-> "complete", doc |-> 0]
    /\ writePc = [ atomic |-> [step |-> "idle", data |-> 0, old |-> 0],
                   save |-> [step |-> "idle", data |-> 0, old |-> 0] ]
    /\ killed = FALSE
    /\ threadPc = [t \in {1, 2} |-> "idle"]
    /\ frame = [t \in {1, 2} |-> [total_songs |-> 0, id |-> 0, start |-> 0, cursor |-> 0]]
    /\ batchPc = "idle"
    /\ batchCall = [prompts |-> <<>>, songs_per_session |-> 0,
                    auto_submit |-> FALSE, history |-> FALSE]
    /\ driver = FALSE
    /\ loop = [session_index |-> 0, prompt_index |-> 0, completed_songs |-> 0,
               tabs |-> 0, success |-> FALSE]
    /\ results = <<>>
    /\ session_results = <<>>
    /\ callbacks = <<>>
    /\ sessionLog = <<>>
    /\ stopCalled = FALSE
    /\ lateTab = FALSE
    /\ records = <<>>
    /\ recordsFile = <<>>
    /\ historyOut = [op |-> "__init__", value |-> <<>>]
    /\ download_history = [downloaded_ids |-> <<>>, total_downloaded |-> 0,
                           current_page |-> 1]
    /\ downloadFile = [downloaded_ids |-> <<>>, total_downloaded |-> 0,
                       current_page |-> 1]
    /\ dlPc = "idle"
    /\ dlCall = [source |-> <<>>, start_page |-> 0, max_pages |-> NoneInt,
                 max_clips |-> NoneInt]
    /\ dlLoop = [current_page |-> 0, pages_processed |-> 0, clips |-> <<>>,
                 idx |-> 0, has_more |-> FALSE]
    /\ stats = [success |-> 0, failed |-> 0, skipped |-> 0, total_pages |-> 0]
    /\ dlLog = <<>>
    /\ startIds = {}
    /\ prevRun = [some |-> FALSE, stats |-> [success |-> 0, failed |-> 0,
                                             skipped |-> 0, total_pages |-> 0],
                  startIds |-> {}, complete |-> FALSE]
    /\ rate_limit_wait = RateLimitBase
    /\ window = <<>>
    /\ lastRequest = [attempts |-> 0, ok |-> FALSE, slept |-> 0]
    /\ plan = [n |-> 0, session_count |-> 0, songs_per_session |-> 0]
    /\ runResult = [some |-> FALSE, completed_count |-> 0, status |-> "pending"]
    /\ pending_songs = <<>>
    /\ matched_song_ids = {}
    /\ feed = [a \in ReconAccounts |-> <<>>]
    /\ usedIds = {}
    /\ lastPoll = NoPoll
    /\ drv = 0
    /\ made = 0
    /\ quitPc = [worker |-> "idle", ui |-> "idle"]
    /\ quits = [d \in 1..MaxDrivers |-> 0]
    /\ derefNone = FALSE
    /\ tierRun = [session_index |-> 0, tabs |-> 0]
    /\ runEntry = [some |-> FALSE, start |-> 0, end |-> 0]

add_queue_entry(account_name, total_songs, songs_per_batch, ps) ==
    \E r \in {add_result(account_name, total_songs, songs_per_batch, ps)} :
    LET created == r.call.raised = ""
    IN  /\ prompts' = r.prompts
        /\ prompt_cursor' = r.prompt_cursor
        /\ queues' = r.queues
        /\ disk' = r.disk
        /\ lastCall' = r.call
        /\ nextId' = IF created THEN nextId + 1 ELSE nextId
        /\ createdSinceClear' = createdSinceClear + (IF created THEN total_songs ELSE 0)
        /\ createdSincePool' = (IF r.adopted THEN 0 ELSE createdSincePool)
                               + (IF created THEN total_songs ELSE 0)
        /\ burned' = IF r.adopted THEN {} ELSE burned

remove_queue_entry(queue_id) ==
    \E r \in {remove_result(queue_id)} :
        /\ prompt_cursor' = r.prompt_cursor
        /\ queues' = r.queues
        /\ disk' = r.disk
        /\ lastCall' = r.call
        /\ burned' = IF r.call.ok
                     THEN burned \cup {queues[queue_id].prompts_range}
                     ELSE burned
        /\ UNCHANGED <<prompts, nextId, createdSinceClear, createdSincePool>>

update_queue_progress(queue_id, completed_count, status) ==
    \E r \in {update_result(queue_id, completed_count, status)} :
        /\ queues' = r.queues
        /\ disk' = r.disk
        /\ lastCall' = r.call
        /\ UNCHANGED <<prompts, prompt_cursor, nextId,
                       createdSinceClear, createdSincePool, burned>>

clear ==
    /\ prompts' = <<>>
    /\ prompt_cursor' = 0
    /\ queues' = <<>>
    /\ disk' = save_state(<<>>, 0, <<>>)
    /\ lastCall' = Returned("clear", 0, TRUE)
    /\ createdSinceClear' = 0
    /\ createdSincePool' = 0
    /\ burned' = {}
    /\ UNCHANGED nextId

\* uuid4 values are left for one more entry
IdsLeft(cap) == nextId <= cap

AddQueueEntry ==
    \E a \in Accounts, t \in TotalSongsArgs, s \in SongsPerBatchArgs, ps \in Pools :
        /\ add_queue_entry(a, t, s, ps)
        /\ lastCall'.raised = "" => IdsLeft(MaxEntries)
        /\ OnlyQueue

RemoveQueueEntry == \E q \in QueueIds : remove_queue_entry(q) /\ OnlyQueue

UpdateQueueProgress ==
    \E q \in QueueIds, u \in RunnerUpdates :
        update_queue_progress(q, u[1], u[2]) /\ OnlyQueue

Clear == clear /\ OnlyQueue

Next ==
    \/ AddQueueEntry
    \/ RemoveQueueEntry
    \/ UpdateQueueProgress
    \/ Clear

\* the manager under every pool, size and removal, each entry being updated
\* as the queue runner updates it
Spec == Init /\ [][Next]_vars

AddProgressEntry ==
    \E a \in Accounts, t \in ProgressTotals :
        /\ add_queue_entry(a, t, 1, ProgressPool)
        /\ lastCall'.raised = "" => IdsLeft(MaxProgressEntries)
        /\ OnlyQueue

AnyProgressUpdate ==
    \E q \in 1..MaxProgressEntries, c \in CompletedArgs, st \in StatusArgs :
        update_queue_progress(q, c, st) /\ OnlyQueue

RemoveProgressEntry == \E q \in 1..MaxProgressEntries : remove_queue_entry(q) /\ OnlyQueue

NextProgress ==
    \/ AddProgressEntry
    \/ RemoveProgressEntry
    \/ AnyProgressUpdate
    \/ Clear

\* the manager under every progress update, on entries cut from one pool
ProgressSpec == Init /\ [][NextProgress]_vars

(***************************************************************************)
(* Properties of the Queue Manager.                                        *)
(***************************************************************************)
Live == DOMAIN queues

AddArgs == Accounts \X TotalSongsArgs \X SongsPerBatchArgs \X Pools

Disjoint(r1, r2) == r1[2] <= r2[1] \/ r2[2] <= r1[1]

\* the call leaves pool, cursor and entries as they are
Untouched(r) ==
    /\ r.prompts = prompts
    /\ r.prompt_cursor = prompt_cursor
    /\ r.queues = queues

\* the call replaces the stored pool: the argument is a new non-empty pool
\* and no entry stands in the way
ReplacesPool(ps) ==
    /\ ps # <<>>
    /\ ps # prompts
    /\ (prompts = <<>> \/ Live = {})

\* the call tries to switch the pool under live entries
SwitchesUnderEntries(ps) ==
    /\ ps # <<>>
    /\ prompts # <<>>
    /\ ps # prompts
    /\ Live # {}

\* C1: the prompts_range intervals [start, end) of all live queue entries
\* are pairwise disjoint and each satisfies 0 <= start < end <= len(pool).
C1_RangesDisjoint ==
    \A k \in Live :
        /\ 0 <= queues[k].prompts_range[1]
        /\ queues[k].prompts_range[1] < queues[k].prompts_range[2]
        /\ queues[k].prompts_range[2] <= Len(prompts)
        /\ \A j \in Live \ {k} :
               Disjoint(queues[k].prompts_range, queues[j].prompts_range)

\* two entries live side by side after one was removed
C1_Witness ==
    /\ Cardinality(Live) >= 2
    /\ burned # {}

\* C2 as claimed: for every state and every prompts argument, an
\* add_queue_entry whose total_songs exceeds available_prompt_slots as
\* observed before the call raises QueueValidationError and leaves the
\* cursor and the entries unchanged.
C2_Original ==
    \A x \in AddArgs :
        x[2] > available_prompt_slots =>
            LET r == add_result(x[1], x[2], x[3], x[4])
            IN  /\ r.call.raised = "QueueValidationError"
                /\ r.prompt_cursor = prompt_cursor
                /\ r.queues = queues

\* C2 amended: an add_queue_entry that does not replace the stored pool (its
\* prompts argument equals the stored pool, is empty, or differs while
\* entries exist) and whose total_songs exceeds available_prompt_slots raises
\* QueueValidationError and leaves pool, cursor and entries unchanged.
C2_Capacity ==
    \A x \in AddArgs :
        (~ReplacesPool(x[4]) /\ x[2] > available_prompt_slots) =>
            LET r == add_result(x[1], x[2], x[3], x[4])
            IN  /\ r.call.raised = "QueueValidationError"
                /\ Untouched(r)

\* a request for more prompts than remain was refused while entries exist
\* (so the pool was the stored one)
C2_Witness ==
    /\ lastCall.op = "add_queue_entry"
    /\ lastCall.msg = "Not enough prompts remain to fulfill request"
    /\ Live # {}
    /\ available_prompt_slots > 0

\* C3 as claimed: prompt_cursor never decreases across add_queue_entry (with
\* any prompts argument), remove_queue_entry and update_queue_progress;
\* only clear() lowers it.
C3_Original ==
    [][prompt_cursor' >= prompt_cursor \/ lastCall'.op = "clear"]_vars

\* C3 amended: prompt_cursor never decreases across remove_queue_entry,
\* update_queue_progress and every add_queue_entry that keeps the stored
\* pool; it is lowered only by clear() and by an add_queue_entry (succeeding
\* or failing) that replaces the pool, which happens only while no entry
\* exists.
C3_CursorMonotonic ==
    [][ \/ prompt_cursor' >= prompt_cursor
        \/ lastCall'.op = "clear"
        \/ /\ lastCall'.op = "add_queue_entry"
           /\ prompts' # prompts
           /\ prompts' # <<>>
           /\ Live = {} ]_vars

\* an entry was removed and the cursor stayed where it was
C3_Witness ==
    /\ lastCall.op = "remove_queue_entry"
    /\ lastCall.ok
    /\ prompt_cursor > 0

\* C4 as claimed: prompt_cursor equals the sum of total_songs over all
\* entries created since the last clear(), removed ones included.
C4_Original == prompt_cursor = createdSinceClear

\* C4 amended: prompt_cursor equals the sum of total_songs over all entries
\* created since the pool was last adopted (by an add_queue_entry that
\* replaced it) or cleared, removed ones included.
C4_CursorIsSum == prompt_cursor = createdSincePool

\* entries were created and one of them was removed since the pool was adopted
C4_Witness ==
    /\ burned # {}
    /\ createdSincePool > 0
    /\ Live # {}

\* C5: add_queue_entry with a prompts list that differs from the stored
\* non-empty pool while an entry exists raises QueueValidationError and
\* leaves pool, cursor and entries unchanged; and from one state to the next
\* the prompts that a live entry's range resolves to stay the same.
C5_NoSwitchState ==
    \A x \in AddArgs :
        (prompts # <<>> /\ x[4] # prompts /\ Live # {}) =>
            LET r == add_result(x[1], x[2], x[3], x[4])
            IN  /\ r.call.raised = "QueueValidationError"
                /\ Untouched(r)

C5_ResolvedStable ==
    \A k \in Live \cap DOMAIN queues' :
        queue_prompts(prompts', queues'[k].prompts_range)
            = queue_prompts(prompts, queues[k].prompts_range)

\* C5: a pool switch under live entries is refused without effect, and the
\* prompts a live entry's range resolves to never change while it lives.
C5_NoSwitch == []C5_NoSwitchState /\ [][C5_ResolvedStable]_vars

\* a switch of the pool was refused while an entry exists
C5_Witness ==
    /\ lastCall.op = "add_queue_entry"
    /\ lastCall.msg = "Cannot switch prompts while queues exist"
    /\ Live # {}

\* the pool and the cursor that the checks of add_queue_entry see: those of
\* the prompts argument when it replaces the pool, the stored ones otherwise
PoolInEffect(ps) == IF ReplacesPool(ps) THEN ps ELSE prompts
CursorInEffect(ps) == IF ReplacesPool(ps) THEN 0 ELSE prompt_cursor

\* C6: add_queue_entry raises QueueValidationError and creates no entry
\* whenever prompts is empty, total_songs <= 0, songs_per_batch <= 0,
\* songs_per_batch > total_songs, or cursor + total_songs > len(pool) (the
\* pool and cursor the call works on); it succeeds in every other case in
\* which the pool is not being switched under live entries.
C6_Validation ==
    \A x \in AddArgs :
        LET r == add_result(x[1], x[2], x[3], x[4])
            bad == \/ x[4] = <<>>
                   \/ x[2] <= 0
                   \/ x[3] <= 0
                   \/ x[3] > x[2]
                   \/ CursorInEffect(x[4]) + x[2] > Len(PoolInEffect(x[4]))
        IN  /\ bad => /\ r.call.raised = "QueueValidationError"
                      /\ r.queues = queues
            /\ (~bad /\ ~SwitchesUnderEntries(x[4])) =>
                      /\ r.call.raised = ""
                      /\ DOMAIN r.queues = Live \cup {r.call.id}
                      /\ r.call.id \notin Live

\* a batch size above the entry's total was refused
C6_Witness ==
    /\ lastCall.op = "add_queue_entry"
    /\ lastCall.msg = "Songs per batch cannot exceed total songs"

\* what C7 says of a successful call that found the cursor at c
AddedAt(x, r, c) ==
    /\ r.call.id \notin Live
    /\ DOMAIN r.queues = Live \cup {r.call.id}
    /\ r.queues[r.call.id].account_name = x[1]
    /\ r.queues[r.call.id].total_songs = x[2]
    /\ r.queues[r.call.id].prompts_range = <<c, c + x[2]>>
    /\ r.queues[r.call.id].status = "pending"
    /\ r.queues[r.call.id].completed_count = 0
    /\ r.prompt_cursor = c + x[2]
    /\ \A k \in Live : r.queues[k] = queues[k]

\* C7 as claimed: a successful add_queue_entry that found the cursor at c
\* returns a new entry with a fresh id, range [c, c + total_songs), status
\* pending and completed_count 0, advances the cursor to c + total_songs and
\* leaves every other entry unchanged.
C7_Original ==
    \A x \in AddArgs :
        LET r == add_result(x[1], x[2], x[3], x[4])
        IN  r.call.raised = "" => AddedAt(x, r, prompt_cursor)

\* C7 amended: a successful add_queue_entry returns a new entry with a fresh
\* id, range [c, c + total_songs), status pending and completed_count 0,
\* advances the cursor to c + total_songs and leaves every other entry
\* unchanged, where c is the cursor before the call when the call keeps the
\* stored pool and 0 when it replaces the pool; when the pool is kept,
\* available_prompt_slots drops by exactly total_songs.
C7_AddEffect ==
    \A x \in AddArgs :
        LET r == add_result(x[1], x[2], x[3], x[4])
        IN  r.call.raised = "" =>
                /\ AddedAt(x, r, CursorInEffect(x[4]))
                /\ r.prompts = PoolInEffect(x[4])
                /\ ~ReplacesPool(x[4]) =>
                       Len(r.prompts) - r.prompt_cursor = available_prompt_slots - x[2]

\* an entry was added next to another one, at a cursor other than 0
C7_Witness ==
    /\ lastCall.op = "add_queue_entry"
    /\ lastCall.raised = ""
    /\ lastCall.id \in Live
    /\ queues[lastCall.id].prompts_range[1] > 0
    /\ Cardinality(Live) >= 2

\* C8: remove_queue_entry(id) returns true and deletes exactly that entry
\* when it exists, returns false and changes nothing when it does not; pool,
\* cursor and the other entries stay as they are, and no live entry's range
\* meets the range of an entry removed earlier from the same pool.
C8_RemoveState ==
    /\ \A q \in QueueIds :
           LET r == remove_result(q)
           IN  /\ r.call.ok = (q \in Live)
               /\ DOMAIN r.queues = Live \ {q}
               /\ \A k \in Live \ {q} : r.queues[k] = queues[k]
               /\ r.prompt_cursor = prompt_cursor
    /\ \A k \in Live : \A b \in burned : Disjoint(queues[k].prompts_range, b)

C8_RemoveStep ==
    lastCall'.op = "remove_queue_entry" =>
        /\ prompts' = prompts
        /\ prompt_cursor' = prompt_cursor
        /\ \A k \in DOMAIN queues' : k \in Live /\ queues'[k] = queues[k]
        /\ Cardinality(DOMAIN queues') = Cardinality(Live) - (IF lastCall'.ok THEN 1 ELSE 0)

\* C8: remove_queue_entry deletes exactly the named entry (true) or nothing
\* (false), keeps pool, cursor and the other entries, and a removed entry's
\* range is not handed out again.
C8_Remove == []C8_RemoveState /\ [][C8_RemoveStep]_vars

\* an entry was added while another entry remains and a third was removed
C8_Witness ==
    /\ burned # {}
    /\ lastCall.op = "add_queue_entry"
    /\ lastCall.raised = ""
    /\ Cardinality(Live) >= 2

\* C9: completed_count <= total_songs for every entry; update_queue_progress
\* with completed_count above total_songs stores total_songs; the call
\* returns whether the entry existed.
C9_ProgressClamp ==
    /\ \A k \in Live : queues[k].completed_count <= queues[k].total_songs
    /\ \A q \in 1..MaxProgressEntries, c \in CompletedArgs, st \in StatusArgs :
           LET r == update_result(q, c, st)
           IN  /\ r.call.ok = (q \in Live)
               /\ (q \in Live /\ c.some /\ c.v > queues[q].total_songs) =>
                      r.queues[q].completed_count = queues[q].total_songs

\* an entry of two or more songs was updated with a count above its total
C9_Witness ==
    /\ lastCall.op = "update_queue_progress"
    /\ lastCall.ok
    /\ \E k \in Live : /\ queues[k].total_songs >= 2
                       /\ queues[k].completed_count = queues[k].total_songs

\* C10: the status of every queue entry is one of pending, in_progress,
\* completed, failed, whatever status is passed to update_queue_progress.
C10_StatusInEnum ==
    \A k \in Live : queues[k].status \in QueueStatuses

(***************************************************************************)
(* Part 2: loading the state document (QueueManager.__init__, _load_state). *)
(***************************************************************************)
\* _deserialize_prompts: a stored prompt is kept only if its title, lyrics
\* and style are all non-empty
deserialize_prompts(data) ==
    SelectSeq(data, LAMBDA item : item.title # "" /\ item.lyrics # "" /\ item.style # "")

\* QueueEntry.from_dict on a dict written by to_dict (prompts_range becomes a
\* tuple again)
from_dict(data) ==
    [ id |-> data.id,
      account_name |-> data.account_name,
      total_songs |-> data.total_songs,
      songs_per_batch |-> data.songs_per_batch,
      prompts_range |-> data.prompts_range,
      status |-> data.status,
      completed_count |-> data.completed_count ]

\* the state _load_state builds from a document
load_state(doc) ==
    [ prompts |-> deserialize_prompts(doc.prompts),
      prompt_cursor |-> doc.prompt_cursor,
      queues |-> [k \in DOMAIN doc.queues |-> from_dict(doc.queues[k])] ]

\* QueueManager(state_file): a fresh manager built on the same state file
\* takes the place of the old one
reload ==
    \E l \in {load_state(disk)} :
        /\ prompts' = l.prompts
        /\ prompt_cursor' = l.prompt_cursor
        /\ queues' = l.queues
        /\ lastCall' = Returned("__init__", 0, TRUE)
        /\ UNCHANGED <<nextId, disk, createdSinceClear, createdSincePool, burned>>

Reload == reload /\ OnlyQueue

\* add_queue_entry with every pool, for sizes that fit it
AddPersistEntry ==
    \E a \in Accounts, t \in ProgressTotals, ps \in Pools :
        /\ add_queue_entry(a, t, 1, ps)
        /\ lastCall'.raised = "" => IdsLeft(MaxProgressEntries)
        /\ OnlyQueue

NextPersist ==
    \/ AddPersistEntry
    \/ RemoveQueueEntry
    \/ UpdateQueueProgress
    \/ Clear
    \/ Reload

\* the manager under every call, replaced at any moment by a fresh manager
\* loaded from the state file
PersistSpec == Init /\ [][NextPersist]_vars

\* the last call was an add, update or remove that succeeded (and so saved)
SavedCall ==
    /\ lastCall.op \in {"add_queue_entry", "update_queue_progress", "remove_queue_entry"}
    /\ lastCall.raised = ""
    /\ lastCall.ok

\* C11: a fresh QueueManager constructed on the state file after a successful
\* add_queue_entry, update_queue_progress or remove_queue_entry holds the
\* same prompts list, the same prompt_cursor and the same entries (by id,
\* with equal account, total_songs, range, status and completed_count) as
\* the manager that made the call, for every pool add_queue_entry accepts.
C11_RoundTrip ==
    [][ (SavedCall /\ lastCall'.op = "__init__") =>
            /\ prompts' = prompts
            /\ prompt_cursor' = prompt_cursor
            /\ queues' = queues ]_vars

(***************************************************************************)
(* Part 3: the two JSON writers (src/src/utils/helpers.py), step by step,   *)
(* in a process that can be killed between any two steps.  The Queue       *)
(* Manager saves with atomic_write_json, DownloadManager.save_histories    *)
(* with save_json.  A file is [kind, doc]: absent, empty, a partial or the *)
(* complete text of document number doc.                                   *)
(***************************************************************************)
\* atomic_write_json(state_file, data): create the temporary file in the
\* directory of the target, dump the document into it, close it, and
\* os.replace it over the target; any exception unlinks the temporary file
atomic_write_json ==
    /\ ~killed
    /\ UNCHANGED <<historyDocFile, killed>>
    /\ \/ /\ writePc.atomic.step = "idle"
          /\ writePc.atomic.data < MaxDocs
          /\ tempFile' = [kind |-> "empty", doc |-> 0]
          /\ writePc' = [writePc EXCEPT !.atomic =
                 [step |-> "dump", data |-> @.data + 1, old |-> queueDocFile.doc]]
          /\ UNCHANGED queueDocFile
       \/ /\ writePc.atomic.step = "dump"
          /\ tempFile' = [kind |-> "partial", doc |-> writePc.atomic.data]
          /\ writePc' = [writePc EXCEPT !.atomic.step = "close"]
          /\ UNCHANGED queueDocFile
       \/ /\ writePc.atomic.step = "close"
          /\ tempFile' = [kind |-> "complete", doc |-> writePc.atomic.data]
          /\ writePc' = [writePc EXCEPT !.atomic.step = "replace"]
          /\ UNCHANGED queueDocFile
       \/ /\ writePc.atomic.step = "replace"
          /\ queueDocFile' = tempFile
          /\ tempFile' = [kind |-> "absent", doc |-> 0]
          /\ writePc' = [writePc EXCEPT !.atomic.step = "idle"]
       \/ /\ writePc.atomic.step \in {"dump", "close"}
          /\ tempFile' = [kind |-> "absent", doc |-> 0]
          /\ writePc' = [writePc EXCEPT !.atomic.step = "idle"]
          /\ UNCHANGED queueDocFile

\* save_json(history_file, data): open the target for writing (which
\* truncates it), dump the document into it, close it; an exception leaves
\* the file as far as it was written
save_json ==
    /\ ~killed
    /\ UNCHANGED <<queueDocFile, tempFile, killed>>
    /\ \/ /\ writePc.save.step = "idle"
          /\ writePc.save.data < MaxDocs
          /\ historyDocFile' = [kind |-> "empty", doc |-> 0]
          /\ writePc' = [writePc EXCEPT !.save =
                 [step |-> "dump", data |-> @.data + 1, old |-> historyDocFile.doc]]
       \/ /\ writePc.save.step = "dump"
          /\ historyDocFile' = [kind |-> "partial", doc |-> writePc.save.data]
          /\ writePc' = [writePc EXCEPT !.save.step = "close"]
       \/ /\ writePc.save.step = "close"
          /\ historyDocFile' = [kind |-> "complete", doc |-> writePc.save.data]
          /\ writePc' = [writePc EXCEPT !.save.step = "idle"]
       \/ /\ writePc.save.step \in {"dump", "close"}
          /\ writePc' = [writePc EXCEPT !.save.step = "idle"]
          /\ UNCHANGED historyDocFile

\* the process is killed; the files stay as they are
Kill ==
    /\ ~killed
    /\ killed' = TRUE
    /\ UNCHANGED <<queueDocFile, tempFile, historyDocFile, writePc>>

NextWrite ==
    \/ atomic_write_json /\ OnlyWrite
    \/ save_json /\ OnlyWrite
    \/ Kill /\ OnlyWrite

\* both writers at work, the process killed at any step
WriteSpec == Init /\ [][NextWrite]_vars

\* the file holds the whole document it held before the write began, or the
\* whole document being written
OldOrNew(file, w) ==
    /\ file.kind = "complete"
    /\ file.doc \in {w.old, w.data}

\* C12: both the Queue state document and the Download History document are
\* rewritten atomically: if the process is killed at any step of a write, the
\* file holds either the complete old document or the complete new one.
C12_AtomicRewrite ==
    killed => /\ OldOrNew(queueDocFile, writePc.atomic)
              /\ OldOrNew(historyDocFile, writePc.save)

(***************************************************************************)
(* Part 4: two threads inside QueueManager.add_queue_entry on one manager.  *)
(* The method takes no lock, so the threads interleave between its         *)
(* statements; self.prompt_cursor += n is a read followed by a write.      *)
(***************************************************************************)
Threads == {1, 2}

\* one statement of add_queue_entry(account, total_songs, 1, ProgressPool) in
\* thread t
add_queue_entry_step(t) ==
    LET f == frame[t]
        goto(l) == threadPc' = [threadPc EXCEPT ![t] = l]
    IN  /\ UNCHANGED <<writeVars, batchVars, historyVars, downloadVars, apiVars,
                       panelVars, runResult, reconVars, quitVars,
                       lastCall, createdSinceClear, createdSincePool, burned>>
        /\ \/ \E n \in ProgressTotals, e \in {ensure_prompts(ProgressPool)} :
                 \* the call and self._ensure_prompts(prompts)
                 /\ threadPc[t] = "idle"
                 /\ frame' = [frame EXCEPT ![t].total_songs = n]
                 /\ prompts' = e.prompts
                 /\ prompt_cursor' = e.prompt_cursor
                 /\ goto(IF e.msg = "" THEN "validate" ELSE "raised")
                 /\ UNCHANGED <<queues, nextId, disk>>
           \/ /\ threadPc[t] = "validate"
              /\ goto(IF add_validation(prompt_cursor, Len(prompts), f.total_songs, 1) = ""
                      THEN "entry" ELSE "raised")
              /\ UNCHANGED <<prompts, prompt_cursor, queues, nextId, disk, frame>>
           \/ \* entry = QueueEntry(id=str(uuid4()), ..., prompts_range=(cursor, ...))
              /\ threadPc[t] = "entry"
              /\ frame' = [frame EXCEPT ![t].id = nextId, ![t].start = prompt_cursor]
              /\ nextId' = nextId + 1
              /\ goto("load")
              /\ UNCHANGED <<prompts, prompt_cursor, queues, disk>>
           \/ \* self.prompt_cursor += total_songs: the read
              /\ threadPc[t] = "load"
              /\ frame' = [frame EXCEPT ![t].cursor = prompt_cursor]
              /\ goto("store")
              /\ UNCHANGED <<prompts, prompt_cursor, queues, nextId, disk>>
           \/ \* self.prompt_cursor += total_songs: the write
              /\ threadPc[t] = "store"
              /\ prompt_cursor' = advance_cursor(f.cursor, f.total_songs)
              /\ goto("insert")
              /\ UNCHANGED <<prompts, queues, nextId, disk, frame>>
           \/ \* self.queues[entry.id] = entry
              /\ threadPc[t] = "insert"
              /\ queues' = (f.id :> new_entry(f.id, "acc1", f.total_songs, 1, f.start))
                               @@ queues
              /\ goto("save")
              /\ UNCHANGED <<prompts, prompt_cursor, nextId, disk, frame>>
           \/ \* self._save_state(); return entry
              /\ threadPc[t] = "save"
              /\ disk' = save_state(prompts, prompt_cursor, queues)
              /\ goto("returned")
              /\ UNCHANGED <<prompts, prompt_cursor, queues, nextId, frame>>

NextRace == \E t \in Threads : add_queue_entry_step(t)

\* two concurrent add_queue_entry calls under every interleaving
RaceSpec == Init /\ [][NextRace]_vars

\* C13: two threads calling add_queue_entry concurrently on the same manager
\* are serialized through a lock: under every interleaving the ranges of the
\* entries are disjoint and, when both calls return, the cursor has advanced
\* by the sum of the two total_songs.
C13_Serialized ==
    /\ \A j, k \in Live :
           j # k => Disjoint(queues[j].prompts_range, queues[k].prompts_range)
    /\ (\A t \in Threads : threadPc[t] = "returned") =>
           prompt_cursor = frame[1].total_songs + frame[2].total_songs

(***************************************************************************)
(* Part 5: BatchSongCreator (src/src/core/batch_song_creator.py) writing to *)
(* SongCreationHistoryManager                                              *)
(* (src/src/core/song_creation_history_manager.py).  One call of           *)
(* create_songs_batch runs session after session, tab after tab, in the    *)
(* worker thread; stop() arrives from the UI thread between any two steps. *)
(***************************************************************************)
\* the i-th prompt of a batch; titles differ so that order can be seen
BatchPrompt(i) == [title |-> ToString(i), lyrics |-> "la la", style |-> "Pop"]

\* the prompts argument: the empty list and lists of every length
PromptLists == { [i \in 1..n |-> BatchPrompt(i)] : n \in 0..MaxBatchLen }

\* the songs_per_session argument, zero included
SongsPerSessionArgs == 0..MaxBatchLen

\* driver.current_url once it contains "/song/", as the list of its pieces
\* between slashes: one address without and one with a trailing slash
Urls == { <<"https:", "", "suno.com", "song", "abc-123">>,
          <<"https:", "", "suno.com", "song", "xyz-9", "">> }

\* what _submit_and_get_id does: the wait ends on a song address, it times
\* out, or something else is raised (the message is str(exc))
SubmitOutcomes ==
    { [kind |-> "url", url |-> u, msg |-> ""] : u \in Urls } \cup
    { [kind |-> "timeout", url |-> <<>>, msg |-> ""],
      [kind |-> "error", url |-> <<>>, msg |-> "element click intercepted"] }

\* _submit_and_get_id without a driver
NotInitialized == [kind |-> "error", url |-> <<>>, msg |-> "WebDriver is not initialized"]

\* max(1, songs_per_session)
session_size(songs_per_session) ==
    IF songs_per_session < 1 THEN 1 ELSE songs_per_session

\* variant: a last, shorter session is not counted
session_count_floor(total_songs, size) == total_songs \div size

\* (total_songs + session_size - 1) // session_size
session_count(total_songs, size) == (total_songs + size - 1) \div size

\* prompts[start_idx:start_idx + session_size]
session_prompts(ps, session_index, size) ==
    SubSeq(ps, session_index * size + 1, Min(session_index * size + size, Len(ps)))

\* min(100, int(k / total_songs * 100)) for the k-th song of the batch
progress_percent(k, total_songs) == Min(100, (k * 100) \div total_songs)

\* url.rstrip("/").split("/")[-1]
RECURSIVE rstrip(_)
rstrip(url) ==
    IF url # <<>> /\ url[Len(url)] = ""
    THEN rstrip(SubSeq(url, 1, Len(url) - 1))
    ELSE url

extract_song_id(url) ==
    LET parsed == rstrip(url)
    IN  IF parsed = <<>> THEN "" ELSE parsed[Len(parsed)]

\* variant: a timed-out wait counts as a failure
tab_outcome_timeout_fails(success, auto_submit, submit) ==
    IF ~success
    THEN [success |-> FALSE, status_label |-> "failed", song_id |-> None,
          error_message |-> "Fill form failed"]
    ELSE IF ~auto_submit
    THEN [success |-> TRUE, status_label |-> "pending", song_id |-> None,
          error_message |-> None]
    ELSE IF submit.kind = "url"
    THEN [success |-> TRUE, status_label |-> "success",
          song_id |-> extract_song_id(submit.url), error_message |-> None]
    ELSE [success |-> FALSE, status_label |-> "failed", song_id |-> None,
          error_message |-> submit.msg]

\* the body of the tab loop of _run_session between _fill_song_form and
\* results.append: success, status_label, song_id and error_message.  The
\* message of the timeout is the source's, written without its diacritics.
tab_outcome(success, auto_submit, submit) ==
    IF ~success
    THEN [success |-> FALSE, status_label |-> "failed", song_id |-> None,
          error_message |-> "Fill form failed"]
    ELSE IF ~auto_submit
    THEN [success |-> TRUE, status_label |-> "pending", song_id |-> None,
          error_message |-> None]
    ELSE IF submit.kind = "url"
    THEN [success |-> TRUE, status_label |-> "success",
          song_id |-> extract_song_id(submit.url), error_message |-> None]
    ELSE IF submit.kind = "timeout"
    THEN [success |-> TRUE, status_label |-> "pending", song_id |-> None,
          error_message |-> "Da gui yeu cau - cho ID"]
    ELSE [success |-> FALSE, status_label |-> "failed", song_id |-> None,
          error_message |-> submit.msg]

\* the dict appended to the results of the session
tab_result(prompt, o) ==
    [ title |-> prompt.title,
      success |-> o.success,
      pending |-> o.status_label = "pending",
      error |-> IF o.success THEN None ELSE o.error_message ]

\* variant: the record never carries the song id
creation_record_no_id(prompt, prompt_index, o) ==
    [ song_id |-> "",
      title |-> prompt.title,
      prompt_index |-> prompt_index,
      account_name |-> "acc1",
      status |-> o.status_label,
      error_message |-> o.error_message ]

\* the SongCreationRecord built by _record_history_entry (song_id or "")
creation_record(prompt, prompt_index, o) ==
    [ song_id |-> IF o.song_id = None THEN "" ELSE o.song_id,
      title |-> prompt.title,
      prompt_index |-> prompt_index,
      account_name |-> "acc1",
      status |-> o.status_label,
      error_message |-> o.error_message ]

\* variant: the new record goes to the end of the list
insert_record_last(recs, record) == Append(recs, record)

\* self.records.insert(0, record)
insert_record(recs, record) == <<record>> \o recs

\* the document _save writes: record.to_dict() of every record, in order
save_records(recs) ==
    [i \in 1..Len(recs) |->
        [ song_id |-> recs[i].song_id,
          title |-> recs[i].title,
          prompt_index |-> recs[i].prompt_index,
          account_name |-> recs[i].account_name,
          status |-> recs[i].status,
          error_message |-> recs[i].error_message ]]

\* variant: a failed session leaves no trace in the results
session_failed_silent(res, exc) == res

\* except Exception as exc: results.append({'title': 'SESSION ERROR', ...})
session_failed(res, exc) ==
    Append(res, [title |-> "SESSION ERROR", success |-> FALSE, error |-> exc])

\* the locals after a session has ended one way or another
\* (finally: completed_songs += len(session_prompts); next session_index)
after_session(l, sp) ==
    [l EXCEPT !.session_index = @ + 1,
              !.completed_songs = @ + Len(sp),
              !.prompt_index = 0]

\* the prompts of the session create_songs_batch is at
current_session ==
    session_prompts(batchCall.prompts, loop.session_index,
                    session_size(batchCall.songs_per_session))

\* create_songs_batch: the call up to the first session, and the return
\* after the last
create_songs_batch ==
    \/ /\ batchPc = "idle"
       /\ \E ps \in PromptLists, s \in SongsPerSessionArgs, a \in BOOLEAN, h \in BOOLEAN :
              /\ batchCall' = [prompts |-> ps, songs_per_session |-> s,
                               auto_submit |-> a, history |-> h]
              /\ \/ /\ ps = <<>>          \* if not prompts: return results
                    /\ batchPc' = "returned"
                    /\ UNCHANGED driver
                 \/ /\ ps # <<>>          \* _initialize_driver() made a driver
                    /\ batchPc' = "session"
                    /\ driver' = TRUE
                 \/ /\ ps # <<>>          \* create_stealth_driver raised
                    /\ batchPc' = "raised"
                    /\ UNCHANGED driver
       /\ UNCHANGED <<loop, results, session_results, callbacks, sessionLog,
                      stopCalled, lateTab, records, recordsFile>>
    \/ /\ batchPc = "session"
       /\ loop.session_index = session_count(Len(batchCall.prompts),
                                             session_size(batchCall.songs_per_session))
       /\ driver' = FALSE                 \* finally: self._teardown_driver()
       /\ callbacks' = Append(callbacks,
              [percent |-> 100, song_id |-> None, status |-> "complete",
               title |-> "Batch finished"])
       /\ batchPc' = "returned"
       /\ UNCHANGED <<batchCall, loop, results, session_results, sessionLog,
                      stopCalled, lateTab, records, recordsFile>>

\* _run_session up to the tab loop, and what create_songs_batch does when it
\* returns or raises at once
run_session ==
    /\ batchPc = "session"
    /\ loop.session_index < session_count(Len(batchCall.prompts),
                                          session_size(batchCall.songs_per_session))
    /\ \/ /\ ~driver                      \* if not self.driver: return []
          /\ sessionLog' = Append(sessionLog,
                 [prompts |-> current_session, outcome |-> "skipped"])
          /\ loop' = after_session(loop, current_session)
          /\ UNCHANGED <<batchPc, results, session_results>>
       \/ /\ driver                       \* driver.get or window.open raises
          /\ sessionLog' = Append(sessionLog,
                 [prompts |-> current_session, outcome |-> "error"])
          /\ results' = session_failed(results, "page load failed")
          /\ loop' = after_session(loop, current_session)
          /\ UNCHANGED <<batchPc, session_results>>
       \/ /\ driver                       \* tabs = self.driver.window_handles
          /\ \E tabs \in {Len(current_session)} \cup ({Len(current_session) - 1} \ {0}) :
                 loop' = [loop EXCEPT !.prompt_index = 0, !.tabs = tabs]
          /\ sessionLog' = Append(sessionLog,
                 [prompts |-> current_session, outcome |-> "running"])
          /\ session_results' = <<>>
          /\ batchPc' = "fill"
          /\ UNCHANGED results
    /\ UNCHANGED <<batchCall, driver, callbacks, stopCalled, lateTab, records, recordsFile>>

\* the tab loop up to the return of _fill_song_form, which hands every
\* exception back as False
fill_song_form ==
    /\ batchPc = "fill"
    /\ \/ /\ loop.prompt_index >= loop.tabs   \* tabs[prompt_index]: IndexError
          /\ results' = session_failed(results, "list index out of range")
          /\ sessionLog' = [sessionLog EXCEPT ![Len(sessionLog)].outcome = "error"]
          /\ loop' = after_session(loop, current_session)
          /\ session_results' = <<>>
          /\ batchPc' = "session"
       \/ /\ loop.prompt_index < loop.tabs
          /\ \E ok \in (IF driver THEN BOOLEAN ELSE {FALSE}) :
                 loop' = [loop EXCEPT !.success = ok]
          /\ batchPc' = "submit"
          /\ UNCHANGED <<results, session_results, sessionLog>>
    /\ lateTab' = (stopCalled /\ batchPc' = "submit")
    /\ UNCHANGED <<batchCall, driver, callbacks, stopCalled, records, recordsFile>>

\* the rest of the tab loop for one prompt: submit, results.append,
\* _record_history_entry, progress_callback; after the last prompt the
\* session returns and its results are added to those of the batch
submit_song ==
    /\ batchPc = "submit"
    /\ \E submit \in (IF driver THEN SubmitOutcomes ELSE {NotInitialized}) :
       \E o \in {tab_outcome(loop.success, batchCall.auto_submit, submit)} :
           LET prompt == current_session[loop.prompt_index + 1]
               k == loop.completed_songs + loop.prompt_index + 1
               sr == Append(session_results, tab_result(prompt, o))
               recs == IF batchCall.history
                       THEN insert_record(records, creation_record(prompt, k, o))
                       ELSE records
           IN  /\ records' = recs
               /\ recordsFile' = IF batchCall.history THEN save_records(recs)
                                 ELSE recordsFile
               /\ callbacks' = Append(callbacks,
                      [percent |-> progress_percent(k, Len(batchCall.prompts)),
                       song_id |-> o.song_id, status |-> o.status_label,
                       title |-> prompt.title])
               /\ IF loop.prompt_index + 1 = Len(current_session)
                  THEN /\ results' = results \o sr
                       /\ session_results' = <<>>
                       /\ sessionLog' = [sessionLog EXCEPT ![Len(sessionLog)].outcome = "ok"]
                       /\ loop' = after_session(loop, current_session)
                       /\ batchPc' = "session"
                  ELSE /\ session_results' = sr
                       /\ loop' = [loop EXCEPT !.prompt_index = @ + 1]
                       /\ batchPc' = "fill"
                       /\ UNCHANGED <<results, sessionLog>>
    /\ lateTab' = FALSE
    /\ UNCHANGED <<batchCall, driver, stopCalled>>

\* stop(), called from the UI thread while the batch runs: quit the driver
\* and forget it
stop ==
    /\ batchPc \in {"session", "fill", "submit"}
    /\ ~stopCalled
    /\ stopCalled' = TRUE
    /\ driver' = FALSE
    /\ UNCHANGED <<batchPc, batchCall, loop, results, session_results, callbacks,
                   sessionLog, lateTab, records, recordsFile>>

NextBatch ==
    \/ create_songs_batch /\ OnlyBatch
    \/ run_session /\ OnlyBatch
    \/ fill_song_form /\ OnlyBatch
    \/ submit_song /\ OnlyBatch
    \/ stop /\ OnlyBatch

\* one call of create_songs_batch, with stop() at any moment
BatchSpec == Init /\ [][NextBatch]_vars

(***************************************************************************)
(* Properties of the batch creator.                                        *)
(***************************************************************************)
\* the arguments _submit_and_get_id can answer with
AnySubmit == SubmitOutcomes \cup {NotInitialized}

\* the last piece of an address that is not empty
LastSegment(url) ==
    LET filled == {i \in 1..Len(url) : url[i] # ""}
    IN  url[CHOOSE i \in filled : \A j \in filled : j <= i]

\* the statuses a song can end in
SongStatuses == {"success", "pending", "failed"}

\* C14: every song processed by _run_session ends in exactly one terminal
\* status fixed by (fill result, auto_submit, submit outcome): a failed fill
\* gives failed with 'Fill form failed'; a fill with auto_submit off gives
\* pending without error or song_id; with auto_submit on, a wait that ends
\* gives success with the last path segment of the address as song_id
\* (.../song/abc-123 gives abc-123), a timeout gives pending without song_id
\* and with the 'request sent, waiting for ID' message, and any other
\* exception gives failed with str(exception).
C14_TerminalStatus ==
    /\ \A f \in BOOLEAN, a \in BOOLEAN, submit \in AnySubmit :
           LET o == tab_outcome(f, a, submit)
           IN  /\ o.status_label \in SongStatuses
               /\ ~f => /\ o.status_label = "failed"
                        /\ o.error_message = "Fill form failed"
               /\ (f /\ ~a) => /\ o.status_label = "pending"
                               /\ o.error_message = None
                               /\ o.song_id = None
               /\ (f /\ a /\ submit.kind = "url") =>
                      /\ o.status_label = "success"
                      /\ o.song_id = LastSegment(submit.url)
               /\ (f /\ a /\ submit.kind = "timeout") =>
                      /\ o.status_label = "pending"
                      /\ o.song_id = None
                      /\ o.error_message = "Da gui yeu cau - cho ID"
               /\ (f /\ a /\ submit.kind = "error") =>
                      /\ o.status_label = "failed"
                      /\ o.error_message = submit.msg
    /\ extract_song_id(<<"https:", "", "suno.com", "song", "abc-123">>) = "abc-123"
    /\ \A i \in 1..Len(records) :
           /\ records[i].status \in SongStatuses
           /\ \A j \in 1..Len(records) :
                  records[i].prompt_index = records[j].prompt_index => i = j

\* one batch has ended a song in each way: success with the id of an address
\* that ends in a slash, pending after a timeout, failed after an exception,
\* failed after a failed fill
C14_Witness ==
    /\ \E i \in 1..Len(records) :
           records[i].status = "success" /\ records[i].song_id = "xyz-9"
    /\ \E i \in 1..Len(records) :
           /\ records[i].status = "pending"
           /\ records[i].error_message = "Da gui yeu cau - cho ID"
    /\ \E i \in 1..Len(records) :
           /\ records[i].status = "failed"
           /\ records[i].error_message = "element click intercepted"
    /\ \E i \in 1..Len(records) :
           /\ records[i].status = "failed"
           /\ records[i].error_message = "Fill form failed"

\* songs_per_session, treated as at least 1
PerSession == IF batchCall.songs_per_session < 1 THEN 1 ELSE batchCall.songs_per_session

\* ceil(N / s) for the prompts and the session size of the call
CeilSessions ==
    CHOOSE c \in 0..Len(batchCall.prompts) :
        /\ c * PerSession >= Len(batchCall.prompts)
        /\ (c - 1) * PerSession < Len(batchCall.prompts)

\* the prompts of the first n sessions run, one after the other
RECURSIVE SessionsConcat(_)
SessionsConcat(n) ==
    IF n = 0 THEN <<>> ELSE SessionsConcat(n - 1) \o sessionLog[n].prompts

\* C15: create_songs_batch with N > 0 prompts and songs_per_session s
\* (treated as at least 1) runs exactly ceil(N / s) sessions, session i
\* (0-based) receiving prompts[i*s : (i+1)*s]; the sessions' prompts
\* concatenated in order are the input list.
C15_Sessions ==
    /\ \A n \in 1..Len(sessionLog) :
           sessionLog[n].prompts =
               SubSeq(batchCall.prompts, (n - 1) * PerSession + 1,
                      Min(n * PerSession, Len(batchCall.prompts)))
    /\ (batchPc = "returned" /\ batchCall.prompts # <<>>) =>
           /\ Len(sessionLog) = CeilSessions
           /\ SessionsConcat(Len(sessionLog)) = batchCall.prompts

\* a batch whose last session is shorter than the others has returned
\* (the counterpart of 7 prompts in sessions of 3, 3 and 1)
C15_Witness ==
    /\ batchPc = "returned"
    /\ Len(batchCall.prompts) = MaxBatchLen
    /\ batchCall.songs_per_session = MaxBatchLen - 1
    /\ Len(sessionLog) = 2
    /\ Len(sessionLog[2].prompts) = 1
    /\ \A n \in 1..2 : sessionLog[n].outcome = "ok"

\* the records in the order they were written
Written(k) == records[Len(records) + 1 - k]

\* the song id as a record stores it: the empty string for no id
StoredId(song_id) == IF song_id = None THEN "" ELSE song_id

\* C16: with a history manager attached, create_songs_batch appends exactly
\* one Song Creation Record and invokes the progress callback exactly once
\* for every prompt of every session that runs without a session-level
\* error, record and callback carrying the same status and the same song_id
\* (the record holds the empty string where the callback is passed None);
\* the events come in the order of the input prompts, session k before
\* session k+1, followed by one final 'complete' callback at 100 percent.
C16_RecordsAndCallbacks ==
    (batchPc = "returned" /\ batchCall.history /\ batchCall.prompts # <<>>) =>
        /\ Len(callbacks) = Len(records) + 1
        /\ callbacks[Len(callbacks)].status = "complete"
        /\ callbacks[Len(callbacks)].percent = 100
        /\ \A k \in 1..Len(records) :
               /\ callbacks[k].status = Written(k).status
               /\ callbacks[k].status \in SongStatuses
               /\ StoredId(callbacks[k].song_id) = Written(k).song_id
               /\ callbacks[k].title = Written(k).title
               /\ batchCall.prompts[Written(k).prompt_index].title = Written(k).title
               /\ \A j \in 1..(k - 1) : Written(j).prompt_index < Written(k).prompt_index
        /\ \A n \in 1..Len(sessionLog) :
               sessionLog[n].outcome = "ok" =>
                   \A i \in 1..Len(sessionLog[n].prompts) :
                       \E k \in 1..Len(records) :
                           Written(k).prompt_index = (n - 1) * PerSession + i

\* a batch of two or more sessions, all without error, has returned; one of
\* its songs got an id and another is pending
C16_Witness ==
    /\ batchPc = "returned"
    /\ batchCall.history
    /\ ~stopCalled
    /\ Len(sessionLog) >= 2
    /\ \A n \in 1..Len(sessionLog) : sessionLog[n].outcome = "ok"
    /\ Len(records) = Len(batchCall.prompts)
    /\ \E k \in 1..Len(records) : records[k].song_id = "abc-123"
    /\ \E k \in 1..Len(records) : records[k].status = "pending"

\* the titles of a list of prompts or of results
Titles(seq) == [i \in 1..Len(seq) |-> seq[i].title]

\* the titles the results must show after the first n sessions: one per
\* prompt of a session that ended normally, one synthetic entry for a session
\* that raised
RECURSIVE ExpectedTitles(_)
ExpectedTitles(n) ==
    IF n = 0 THEN <<>>
    ELSE ExpectedTitles(n - 1) \o
         ( CASE sessionLog[n].outcome = "ok" -> Titles(sessionLog[n].prompts)
             [] sessionLog[n].outcome = "error" -> <<"SESSION ERROR">>
             [] OTHER -> <<>> )

\* C17: if session k raises, exactly one synthetic failed result is appended
\* for it, every later session still executes and the results are returned
\* normally; a failed form fill for one tab yields failed for that song only
\* and the remaining tabs of the session are processed.
C17_FailureIsolation ==
    /\ batchPc = "raised" => sessionLog = <<>>
    /\ ~stopCalled =>
           \A n \in 1..Len(sessionLog) : sessionLog[n].outcome # "skipped"
    /\ (batchPc = "returned" /\ batchCall.prompts # <<>>) =>
           /\ Len(sessionLog) = CeilSessions
           /\ Titles(results) = ExpectedTitles(Len(sessionLog))
           /\ \A i \in 1..Len(results) :
                  results[i].title = "SESSION ERROR" => ~results[i].success

\* a session raised and the batch went on: a later session lost its first
\* song to a failed fill and still created its second
C17_Witness ==
    /\ batchPc = "returned"
    /\ ~stopCalled
    /\ Len(sessionLog) = 2
    /\ sessionLog[1].outcome = "error"
    /\ sessionLog[2].outcome = "ok"
    /\ Len(results) = 3
    /\ results[1].title = "SESSION ERROR"
    /\ results[2].error = "Fill form failed"
    /\ results[3].success

\* C18: once stop() has been called during create_songs_batch, no tab or
\* session that has not yet begun is processed, no further Song Creation
\* Record is written (those already written are kept) and no unfinished song
\* is marked failed.
C18_StopHonored ==
    [][ lateTab =>
            /\ records' = records
            /\ Len(callbacks') > Len(callbacks) =>
                   callbacks'[Len(callbacks')].status # "failed" ]_vars

(***************************************************************************)
(* Part 6: SongCreationHistoryManager on its own, called by hand.          *)
(***************************************************************************)
\* records passed to add_creation_record: two prompts, each created with an
\* id or left pending
RecordArgs ==
    { creation_record(BatchPrompt(i), i, tab_outcome(TRUE, a, [kind |-> "url",
          url |-> <<"https:", "", "suno.com", "song", "abc-123">>, msg |-> ""])) :
      i \in 1..2, a \in BOOLEAN }

\* arguments of the reads: account names and search keywords (whole field
\* values, for which "keyword in field" is equality on these records)
AccountArgs == {"acc1", "acc2"}
KeywordArgs == {"", "pending", "abc-123"}

\* SongCreationRecord.from_dict of every dict of the document
load_records_from(data) ==
    [i \in 1..Len(data) |->
        [ song_id |-> data[i].song_id,
          title |-> data[i].title,
          prompt_index |-> data[i].prompt_index,
          account_name |-> data[i].account_name,
          status |-> data[i].status,
          error_message |-> data[i].error_message ]]

\* add_creation_record(record): insert at the head, then _save
add_creation_record(record) ==
    /\ Len(records) < MaxRecords
    /\ records' = insert_record(records, record)
    /\ recordsFile' = save_records(records')
    /\ historyOut' = [op |-> "add_creation_record", value |-> <<record>>]

\* load_records(): replace the list by what the file holds
load_records ==
    /\ records' = load_records_from(recordsFile)
    /\ historyOut' = [op |-> "load_records", value |-> <<>>]
    /\ UNCHANGED recordsFile

\* the operations that only read: get_all_records, get_records_by_account,
\* search_records and export_to_csv (the rows written, without the header
\* and the timestamp)
read_records ==
    /\ UNCHANGED <<records, recordsFile>>
    /\ \/ historyOut' = [op |-> "get_all_records", value |-> records]
       \/ \E a \in AccountArgs :
              historyOut' = [op |-> "get_records_by_account",
                             value |-> SelectSeq(records, LAMBDA r : r.account_name = a)]
       \/ \E kw \in KeywordArgs :
              historyOut' = [op |-> "search_records",
                             value |-> IF kw = "" THEN records
                                       ELSE SelectSeq(records, LAMBDA r :
                                                kw \in {r.title, r.song_id, r.status})]
       \/ historyOut' = [op |-> "export_to_csv",
                         value |-> [i \in 1..Len(records) |->
                             << records[i].account_name, records[i].title,
                                records[i].song_id, records[i].status,
                                IF records[i].error_message = None THEN ""
                                ELSE records[i].error_message >>]]

NextHistory ==
    \/ \E record \in RecordArgs : add_creation_record(record) /\ OnlyHistory
    \/ load_records /\ OnlyHistory
    \/ read_records /\ OnlyHistory

\* the history store under every call
HistorySpec == Init /\ [][NextHistory]_vars

SourcePages ==
    UNION { [1..n -> 1..MaxClipId] : n \in 1..MaxPageLen }

\* a source: its non-empty pages, page 0 first; every later page is empty
Sources ==
    UNION { [1..n -> SourcePages] : n \in 0..MaxSourcePages }

\* Optional[int] arguments max_pages and max_clips
MaxPagesArgs == {NoneInt} \cup { SomeInt(n) : n \in 1..MaxSourcePages }
MaxClipsArgs == {NoneInt} \cup { SomeInt(n) : n \in 1..MaxPageLen }

\* how a page request ends: answered, failed inside _make_request (which
\* returns None), or an exception that is not a RequestException
FetchOutcomes == {"ok", "request_failed", "exception"}

\* variant: the first clip of every page is lost
fetch_one_page_short(source, page, outcome) ==
    IF outcome = "ok" /\ page + 1 <= Len(source)
    THEN [clips |-> Tail(source[page + 1]), has_more |-> TRUE]
    ELSE [clips |-> <<>>, has_more |-> FALSE]

\* variant: a failed request is answered like a good one
fetch_one_page_despite_failure(source, page, outcome) ==
    IF page + 1 <= Len(source)
    THEN [clips |-> source[page + 1], has_more |-> TRUE]
    ELSE [clips |-> <<>>, has_more |-> FALSE]

\* fetch_profile_clips / fetch_create_clips_paginated(start_page=page,
\* max_pages=1): the clips of that page and has_more
fetch_one_page(source, page, outcome) ==
    IF outcome = "ok" /\ page + 1 <= Len(source)
    THEN [clips |-> source[page + 1], has_more |-> TRUE]
    ELSE [clips |-> <<>>, has_more |-> FALSE]

\* DownloadHistory.is_downloaded(clip_id)
is_downloaded_never(h, clip_id) == FALSE
is_downloaded(h, clip_id) ==
    \E i \in 1..Len(h.downloaded_ids) : h.downloaded_ids[i] = clip_id

\* DownloadHistory.add_download(clip_id)
add_download_lost(h, clip_id) == h
add_download_unchecked(h, clip_id) ==
    LET ids == Append(h.downloaded_ids, clip_id)
    IN  [h EXCEPT !.downloaded_ids = ids, !.total_downloaded = Len(ids)]
add_download(h, clip_id) ==
    IF clip_id \in { h.downloaded_ids[i] : i \in 1..Len(h.downloaded_ids) }
    THEN h
    ELSE LET ids == Append(h.downloaded_ids, clip_id)
         IN  [h EXCEPT !.downloaded_ids = ids, !.total_downloaded = Len(ids)]

\* DownloadHistory.clear()
history_clear(h) == [h EXCEPT !.downloaded_ids = <<>>, !.total_downloaded = 0]

\* the history file between open(filepath, 'w') and json.dump in save_json,
\* as load_histories and get_history read it: load_json falls back to {} and
\* the account gets a new DownloadHistory
truncated_file ==
    [downloaded_ids |-> <<>>, total_downloaded |-> 0, current_page |-> 1]

\* the max_clips check, between pages and before every clip
max_clips_reached_late ==
    dlCall.max_clips.some /\ stats.success + stats.skipped > dlCall.max_clips.v
max_clips_reached ==
    dlCall.max_clips.some /\ stats.success + stats.skipped >= dlCall.max_clips.v

\* an entry of the history of the call
Event(kind, id) == [kind |-> kind, id |-> id]

\* batch_download_paginated(account, ..., start_page, max_pages, max_clips),
\* one step at a time: the call, the head of the while loop with the fetch of
\* a page, one clip of the page (a successful download up to the moment
\* save_json has opened the history file, then the rest of the save), the end
\* of the page, and the caller taking the returned stats
batch_download_paginated ==
    \/ \E src \in Sources, sp \in 0..1, mp \in MaxPagesArgs, mc \in MaxClipsArgs :
           /\ dlPc = "idle"
           /\ UNCHANGED prevRun
           /\ dlCall' = [source |-> src, start_page |-> sp, max_pages |-> mp,
                         max_clips |-> mc]
           /\ stats' = [success |-> 0, failed |-> 0, skipped |-> 0, total_pages |-> 0]
           /\ dlLoop' = [current_page |-> sp, pages_processed |-> 0, clips |-> <<>>,
                         idx |-> 0, has_more |-> FALSE]
           /\ dlLog' = <<>>
           /\ startIds' = { download_history.downloaded_ids[i] :
                            i \in 1..Len(download_history.downloaded_ids) }
           /\ dlPc' = "page"
           /\ UNCHANGED <<download_history, downloadFile>>
    \/ /\ dlPc = "page"
       /\ \/ dlCall.max_pages.some /\ dlLoop.pages_processed >= dlCall.max_pages.v
          \/ max_clips_reached
       /\ dlPc' = "returned"
       /\ UNCHANGED <<download_history, downloadFile, dlCall, dlLoop, stats,
                      dlLog, startIds, prevRun>>
    \/ /\ dlPc = "page"
       /\ ~(dlCall.max_pages.some /\ dlLoop.pages_processed >= dlCall.max_pages.v)
       /\ ~max_clips_reached
       /\ \E outcome \in FetchOutcomes :
          \E r \in {fetch_one_page(dlCall.source, dlLoop.current_page, outcome)} :
              IF outcome = "exception"
              THEN /\ stats' = [stats EXCEPT !.failed = @ + 1]
                   /\ dlLog' = Append(dlLog, Event("error", dlLoop.current_page))
                   /\ dlPc' = "returned"
                   /\ UNCHANGED dlLoop
              ELSE /\ dlLog' = Append(dlLog, Event(IF outcome = "ok" THEN "fetch"
                                                   ELSE "fetch_failed",
                                                   dlLoop.current_page))
                   /\ IF r.clips = <<>>
                      THEN /\ dlPc' = "returned"
                           /\ UNCHANGED <<stats, dlLoop>>
                      ELSE /\ stats' = [stats EXCEPT !.total_pages = @ + 1]
                           /\ dlLoop' = [dlLoop EXCEPT !.pages_processed = @ + 1,
                                                       !.clips = r.clips,
                                                       !.idx = 1,
                                                       !.has_more = r.has_more]
                           /\ dlPc' = "clip"
       /\ UNCHANGED <<download_history, downloadFile, dlCall, startIds, prevRun>>
    \/ /\ dlPc = "clip"
       /\ dlLoop.idx <= Len(dlLoop.clips)
       /\ ~max_clips_reached
       /\ LET clip == dlLoop.clips[dlLoop.idx]
              sleeps == dlLoop.idx < Len(dlLoop.clips) \/ dlLoop.has_more
              slept(log) == IF sleeps THEN Append(log, Event("sleep", clip)) ELSE log
          IN  IF is_downloaded(download_history, clip)
              THEN /\ stats' = [stats EXCEPT !.skipped = @ + 1]
                   /\ dlLog' = Append(dlLog, Event("skipped", clip))
                   /\ dlLoop' = [dlLoop EXCEPT !.idx = @ + 1]
                   /\ UNCHANGED <<download_history, downloadFile, dlPc>>
              ELSE \E success \in BOOLEAN :
                       IF success
                       THEN /\ download_history' = add_download(download_history, clip)
                            /\ stats' = [stats EXCEPT !.success = @ + 1]
                            /\ downloadFile' = truncated_file
                            /\ dlLog' = Append(dlLog, Event("success", clip))
                            /\ dlPc' = "save"
                            /\ UNCHANGED dlLoop
                       ELSE /\ stats' = [stats EXCEPT !.failed = @ + 1]
                            /\ dlLog' = slept(Append(dlLog, Event("failed", clip)))
                            /\ dlLoop' = [dlLoop EXCEPT !.idx = @ + 1]
                            /\ UNCHANGED <<download_history, downloadFile, dlPc>>
       /\ UNCHANGED <<dlCall, startIds, prevRun>>
    \/ /\ dlPc = "save"
       /\ downloadFile' = download_history
       /\ dlLog' = IF dlLoop.idx < Len(dlLoop.clips) \/ dlLoop.has_more
                   THEN Append(dlLog, Event("sleep", dlLoop.clips[dlLoop.idx]))
                   ELSE dlLog
       /\ dlLoop' = [dlLoop EXCEPT !.idx = @ + 1]
       /\ dlPc' = "clip"
       /\ UNCHANGED <<download_history, dlCall, stats, startIds, prevRun>>
    \/ /\ dlPc = "clip"
       /\ dlLoop.idx > Len(dlLoop.clips) \/ max_clips_reached
       /\ IF dlLoop.has_more
          THEN /\ dlLoop' = [dlLoop EXCEPT !.current_page = @ + 1]
               /\ dlPc' = "page"
          ELSE /\ dlPc' = "returned"
               /\ UNCHANGED dlLoop
       /\ UNCHANGED <<download_history, downloadFile, dlCall, stats, dlLog, startIds,
                      prevRun>>
    \/ /\ dlPc = "returned"
       /\ dlPc' = "idle"
       /\ dlCall' = [source |-> <<>>, start_page |-> 0, max_pages |-> NoneInt,
                     max_clips |-> NoneInt]
       /\ dlLoop' = [current_page |-> 0, pages_processed |-> 0, clips |-> <<>>,
                     idx |-> 0, has_more |-> FALSE]
       /\ stats' = [success |-> 0, failed |-> 0, skipped |-> 0, total_pages |-> 0]
       /\ dlLog' = <<>>
       /\ startIds' = {}
       /\ prevRun' = [some |-> FALSE, stats |-> [success |-> 0, failed |-> 0,
                                                 skipped |-> 0, total_pages |-> 0],
                      startIds |-> {}, complete |-> FALSE]
       /\ UNCHANGED <<download_history, downloadFile>>

\* clear_history(account) between two calls: clear() and save_histories()
clear_history ==
    /\ dlPc = "idle"
    /\ download_history' = history_clear(download_history)
    /\ downloadFile' = download_history'
    /\ UNCHANGED dlPc
    /\ UNCHANGED <<dlCall, dlLoop, stats, dlLog, startIds, prevRun>>

\* get_history(account).add_download(clip_id) between two calls, for any id
add_download_call ==
    \E clip_id \in 1..MaxClipId :
        /\ dlPc = "idle"
        /\ download_history' = add_download(download_history, clip_id)
        /\ UNCHANGED <<downloadFile, dlPc, dlCall, dlLoop, stats, dlLog, startIds,
                       prevRun>>

NextDownload ==
    \/ batch_download_paginated /\ OnlyDownload
    \/ clear_history /\ OnlyDownload
    \/ add_download_call /\ OnlyDownload

\* the download manager under every call
DownloadSpec == Init /\ [][NextDownload]_vars

\* the ids in the dedup set
DedupSet == { download_history.downloaded_ids[i] :
              i \in 1..Len(download_history.downloaded_ids) }

\* the ids the call has downloaded before its n-th event, and its events of
\* one kind
SucceededBefore(n) == { dlLog[j].id : j \in { k \in 1..(n - 1) : dlLog[k].kind = "success" } }
EventsOf(kind) == { i \in 1..Len(dlLog) : dlLog[i].kind = kind }

\* C20: during batch_download_paginated a clip id is added to the account's
\* dedup set if and only if its download in this call succeeded; a clip
\* whose id is already in the set is counted as skipped and never downloaded
\* again, and a clip whose download fails is counted as failed and its id is
\* not added, so a later run attempts it again.
C20_DedupIffSuccess ==
    dlPc # "idle" =>
        /\ DedupSet = startIds \cup SucceededBefore(Len(dlLog) + 1)
        /\ \A i \in 1..Len(dlLog) :
               LET known == dlLog[i].id \in startIds \cup SucceededBefore(i)
               IN  /\ dlLog[i].kind = "skipped" => known
                   /\ dlLog[i].kind \in {"success", "failed"} => ~known
        /\ stats.skipped = Cardinality(EventsOf("skipped"))
        /\ stats.success = Cardinality(EventsOf("success"))
        /\ stats.failed = Cardinality(EventsOf("failed")) + Cardinality(EventsOf("error"))

\* a call that downloaded one clip, skipped it when it came back on the next
\* page and failed on another clip, whose id is still outside the set
C20_Witness ==
    /\ dlPc = "returned"
    /\ stats.skipped >= 1
    /\ stats.success >= 1
    /\ \E i \in EventsOf("failed") : dlLog[i].id \notin DedupSet

\* the ids a process started now would load from the history file
PersistedIds == { downloadFile.downloaded_ids[i] :
                  i \in 1..Len(downloadFile.downloaded_ids) }

\* C21: batch_download_paginated persists the Download History after each
\* individual successful download and before the next clip is processed: at
\* every point of the run the persisted downloaded_ids contains the id of
\* every clip whose download has already been counted as success, so a
\* crash mid-page loses none of them.
C21_PersistedAfterEachSuccess ==
    dlPc # "idle" =>
        \A i \in EventsOf("success") : dlLog[i].id \in PersistedIds

\* C22: for every account's Download History, after any sequence of
\* add_download, clear and batch download operations, downloaded_ids
\* contains no duplicate id and total_downloaded == len(downloaded_ids).
C22_HistoryConsistent ==
    /\ \A i, j \in 1..Len(download_history.downloaded_ids) :
           download_history.downloaded_ids[i] = download_history.downloaded_ids[j] => i = j
    /\ download_history.total_downloaded = Len(download_history.downloaded_ids)

\* a batch download that began on a history holding an id, skipped that clip
\* and added another
C22_Witness ==
    /\ dlPc = "returned"
    /\ startIds # {}
    /\ stats.skipped >= 1
    /\ stats.success >= 1
    /\ download_history.total_downloaded = MaxClipId

\* the run had no cap, began at page 0, met no exception and read the source
\* up to its first empty page
RunComplete ==
    /\ ~dlCall.max_pages.some
    /\ ~dlCall.max_clips.some
    /\ dlCall.start_page = 0
    /\ EventsOf("error") = {}
    /\ Cardinality(EventsOf("fetch")) = Len(dlCall.source) + 1

\* the caller runs batch_download_paginated again, same account, same
\* arguments, same source, once the first run has returned
rerun ==
    /\ dlPc = "returned"
    /\ ~prevRun.some
    /\ prevRun' = [some |-> TRUE, stats |-> stats, startIds |-> startIds,
                   complete |-> RunComplete]
    /\ stats' = [success |-> 0, failed |-> 0, skipped |-> 0, total_pages |-> 0]
    /\ dlLoop' = [current_page |-> dlCall.start_page, pages_processed |-> 0,
                  clips |-> <<>>, idx |-> 0, has_more |-> FALSE]
    /\ dlLog' = <<>>
    /\ startIds' = DedupSet
    /\ dlPc' = "page"
    /\ UNCHANGED <<download_history, downloadFile, dlCall>>

NextRerun ==
    \/ batch_download_paginated /\ OnlyDownload
    \/ rerun /\ OnlyDownload

\* the download manager run twice in a row on one source
RerunSpec == Init /\ [][NextRerun]_vars

\* the clips of the source of the call, and their ids
SourceClips ==
    { c \in (1..Len(dlCall.source)) \X (1..MaxPageLen) : c[2] <= Len(dlCall.source[c[1]]) }
SourceIds == { dlCall.source[c[1]][c[2]] : c \in SourceClips }

\* C23: running batch_download_paginated twice in sequence for the same
\* account against the same unchanged source of K distinct clips, with every
\* download succeeding, yields success = K and skipped = 0 on the first run
\* and success = 0 and skipped = K on the second; in general a re-run
\* attempts downloads only for ids outside the dedup set (the complement of
\* what was already downloaded).
C23_Idempotent ==
    (dlPc # "idle" /\ prevRun.some) =>
        /\ \A i \in EventsOf("success") \cup EventsOf("failed") :
               dlLog[i].id \notin startIds
        /\ (dlPc = "returned" /\ RunComplete /\ prevRun.complete
               /\ prevRun.startIds = {} /\ prevRun.stats.failed = 0) =>
               /\ prevRun.stats.success = Cardinality(SourceIds)
               /\ prevRun.stats.skipped = Cardinality(SourceClips) - Cardinality(SourceIds)
               /\ stats.success = 0
               /\ stats.failed = 0
               /\ stats.skipped = Cardinality(SourceClips)
               /\ DedupSet = SourceIds

\* two complete runs over two pages of distinct clips: all downloaded by the
\* first, all skipped by the second
C23_Witness ==
    /\ dlPc = "returned"
    /\ prevRun.some /\ prevRun.complete /\ RunComplete
    /\ prevRun.startIds = {}
    /\ Len(dlCall.source) = 2
    /\ prevRun.stats.success = MaxClipId
    /\ prevRun.stats.skipped = 0
    /\ stats.success = 0
    /\ stats.skipped = MaxClipId

\* C24: when max_clips is given, batch_download_paginated returns with
\* success + skipped <= max_clips, the cap being checked before every clip
\* (so it can stop mid-page) as well as between pages; when max_pages is
\* given, at most max_pages pages are fetched and counted in total_pages.
C24_Caps ==
    dlPc # "idle" =>
        /\ dlCall.max_clips.some =>
               stats.success + stats.skipped <= dlCall.max_clips.v
        /\ dlCall.max_pages.some =>
               /\ Cardinality(EventsOf("fetch") \cup EventsOf("fetch_failed"))
                      <= dlCall.max_pages.v
               /\ stats.total_pages <= dlCall.max_pages.v

\* a call stopped by max_clips in the middle of its last page, that page
\* being the last one max_pages allowed, with more pages left in the source
C24_Witness ==
    /\ dlPc = "returned"
    /\ dlCall.max_clips.some /\ dlCall.max_pages.some
    /\ stats.success + stats.skipped = dlCall.max_clips.v
    /\ dlLoop.idx <= Len(dlLoop.clips)
    /\ stats.total_pages = dlCall.max_pages.v
    /\ Len(dlCall.source) > dlCall.start_page + stats.total_pages

\* C25: when fetching a page fails (network/request error),
\* batch_download_paginated stops without fetching any further page and
\* without retrying within the call, and returns (rather than raises) the
\* success, skipped and failed counts accumulated for the clips processed so
\* far, with the dedup set containing exactly the ids downloaded before the
\* failure.
C25_FetchFailureStops ==
    /\ [](\A i \in EventsOf("fetch_failed") \cup EventsOf("error") :
              /\ i = Len(dlLog)
              /\ dlPc = "returned"
              /\ DedupSet = startIds \cup SucceededBefore(i)
              /\ stats.success = Cardinality(EventsOf("success"))
              /\ stats.skipped = Cardinality(EventsOf("skipped"))
              /\ stats.failed = Cardinality(EventsOf("failed")) + Cardinality(EventsOf("error")))
    /\ [][ (dlPc = "page" /\ dlPc' = "returned" /\ dlLog' # dlLog
              /\ dlLog'[Len(dlLog')].kind = "fetch_failed") =>
                 /\ stats' = stats
                 /\ download_history' = download_history
                 /\ downloadFile' = downloadFile ]_vars

\* the request for the second page of the source failed after a download
\* had succeeded and another had failed on the first page
C25_Witness ==
    /\ dlPc = "returned"
    /\ dlLog # <<>>
    /\ dlLog[Len(dlLog)] = Event("fetch_failed", 1)
    /\ Len(dlCall.source) = 2
    /\ stats.success = 1
    /\ stats.failed = 1
    /\ stats.total_pages = 1

\* C34: the polite delay is applied between consecutive downloads and is not
\* applied after the last item of the last page of the source, for a source
\* served as the API client serves it.
C34_DelayBetweenOnly ==
    [][ LET slept == /\ Len(dlLog') > Len(dlLog)
                     /\ dlLog'[Len(dlLog')].kind = "sleep"
            attempted == \/ dlPc = "save"
                         \/ /\ dlPc = "clip"
                            /\ Len(dlLog') > Len(dlLog)
                            /\ dlLog'[Len(dlLog) + 1].kind = "failed"
            last == /\ dlLoop.idx = Len(dlLoop.clips)
                    /\ dlLoop.current_page + 1 >= Len(dlCall.source)
        IN  /\ (attempted /\ ~last) => slept
            /\ (attempted /\ last) => ~slept ]_vars

\* C35: batch_download_paginated loads the persisted resume cursor and keeps
\* it up to date: a call begins at the page the cursor names, and when it
\* returns the cursor, in memory and in the file, names the last page it
\* processed.
C35_ResumeCursor ==
    /\ []((dlPc = "returned" /\ dlLoop.pages_processed > 0) =>
            /\ download_history.current_page =
                   dlCall.start_page + dlLoop.pages_processed - 1
            /\ downloadFile.current_page = download_history.current_page)
    /\ [][(dlPc = "idle" /\ dlPc' = "page") =>
              dlLoop'.current_page = download_history.current_page]_vars

\* the thread that runs batch_download_paginated is scheduled again and
\* again until the call returns
FairDownloadSpec ==
    DownloadSpec /\ WF_vars(batch_download_paginated /\ OnlyDownload)

\* the ids of the clips the call has handled, in order, and the clips of the
\* pages first..last of the source, in order
RECURSIVE Handled(_)
Handled(log) ==
    IF log = <<>> THEN <<>>
    ELSE (IF Head(log).kind \in {"success", "skipped", "failed"}
          THEN <<Head(log).id>> ELSE <<>>) \o Handled(Tail(log))
RECURSIVE PagesConcat(_, _, _)
PagesConcat(source, first, last) ==
    IF first > last THEN <<>>
    ELSE source[first] \o PagesConcat(source, first + 1, last)

\* C40: batch_download_paginated always terminates for a finite source, with
\* or without max_pages / max_clips and whatever downloads fail; it stops at
\* the first empty page, and when no cap is set every clip of every
\* non-empty page fetched before that has been counted exactly once as
\* success, skipped or failed.
C40_Terminates ==
    /\ (dlPc \in {"page", "clip", "save"}) ~> (dlPc = "returned")
    /\ []((/\ dlPc = "returned"
           /\ ~dlCall.max_pages.some
           /\ ~dlCall.max_clips.some
           /\ EventsOf("error") = {}) =>
            /\ dlLog # <<>>
            /\ dlLog[Len(dlLog)].kind \in {"fetch", "fetch_failed"}
            /\ dlLog[Len(dlLog)].id = dlCall.start_page + stats.total_pages
            /\ Cardinality(EventsOf("fetch") \cup EventsOf("fetch_failed"))
                   = stats.total_pages + 1
            /\ Handled(dlLog) =
                   PagesConcat(dlCall.source, dlCall.start_page + 1,
                               dlCall.start_page + stats.total_pages)
            /\ stats.success + stats.skipped + stats.failed = Len(Handled(dlLog)))

\* a call without caps went through two pages, with a download that failed
\* and one that succeeded, and returned on the empty third page
C40_Witness ==
    /\ dlPc = "returned"
    /\ ~dlCall.max_pages.some
    /\ ~dlCall.max_clips.some
    /\ stats.total_pages = MaxSourcePages
    /\ stats.failed > 0
    /\ stats.success > 0
    /\ dlLog[Len(dlLog)].kind = "fetch"

(***************************************************************************)
(* Part 8: SunoApiClient._make_request and its rate-limit backoff.         *)
(***************************************************************************)
\* how an HTTP attempt ends: a response with one of these status codes, or
\* NoResponse when requests.request raises (connection error, timeout)
Attempts == {200, 429, 500, NoResponse}

\* variant: every response other than a 200 asks for the retry
handle_rate_limit_any_error(wait, status) ==
    IF status # 200
    THEN [retry |-> TRUE, wait |-> Min(wait + RateLimitIncrement, RateLimitCeiling),
          slept |-> IF status = 429 THEN wait ELSE 0]
    ELSE [retry |-> FALSE, wait |-> RateLimitBase, slept |-> 0]

\* _handle_rate_limit(response): whether to retry, the new wait, the time slept
handle_rate_limit(wait, status) ==
    IF status = 429
    THEN [retry |-> TRUE, wait |-> Min(wait + RateLimitIncrement, RateLimitCeiling),
          slept |-> wait]
    ELSE [retry |-> FALSE, wait |-> IF status = 200 THEN RateLimitBase ELSE wait,
          slept |-> 0]

\* the history of responses with one more, cut to the last MaxWindow
Seen(w, status, slept) ==
    LET all == Append(w, [status |-> status, slept |-> slept])
    IN  IF Len(all) <= MaxWindow THEN all
        ELSE SubSeq(all, Len(all) - MaxWindow + 1, Len(all))

\* _make_request(method, endpoint): the first attempt, _handle_rate_limit on
\* its response, one retry when that says so, raise_for_status on the last
\* response; every RequestException makes it return None
make_request ==
    \E first \in Attempts :
        IF first = NoResponse
        THEN /\ lastRequest' = [attempts |-> 1, ok |-> FALSE, slept |-> 0]
             /\ UNCHANGED <<rate_limit_wait, window>>
        ELSE \E h \in {handle_rate_limit(rate_limit_wait, first)} :
                 /\ rate_limit_wait' = h.wait
                 /\ IF ~h.retry
                    THEN /\ window' = Seen(window, first, h.slept)
                         /\ lastRequest' = [attempts |-> 1, ok |-> first = 200,
                                            slept |-> h.slept]
                    ELSE \E second \in Attempts :
                             /\ window' = IF second = NoResponse
                                          THEN Seen(window, first, h.slept)
                                          ELSE Seen(Seen(window, first, h.slept), second, 0)
                             /\ lastRequest' = [attempts |-> 2, ok |-> second = 200,
                                                slept |-> h.slept]

NextApi == make_request /\ OnlyApi

\* the API client under every sequence of responses
ApiSpec == Init /\ [][NextApi]_vars

\* the last n responses
LastResponses(n) ==
    IF Len(window) < n THEN <<>> ELSE SubSeq(window, Len(window) - n + 1, Len(window))

\* C26: three consecutive 429 responses followed by a 200 cause exactly
\* three rate-limit waits whose durations are non-decreasing, and after the
\* 200 the wait used for the next rate-limited request is back at the base
\* value.
C26_BackoffAndReset ==
    LET last == LastResponses(4)
    IN  (last # <<>> /\ \A i \in 1..3 : last[i].status = 429) /\ last[4].status = 200 =>
            /\ \A i \in 1..3 : last[i].slept > 0
            /\ \A i \in 1..2 : last[i].slept <= last[i + 1].slept
            /\ rate_limit_wait = RateLimitBase

\* C36: the rate-limit wait always lies between the base and the ceiling;
\* each handled 429 sleeps for the current value and then raises it by the
\* increment, capped at the ceiling; any 200 response to a request, the 200
\* of the inline retry included, resets it to the base.
C36_WaitBoundsAndReset ==
    /\ [](RateLimitBase <= rate_limit_wait /\ rate_limit_wait <= RateLimitCeiling)
    /\ [][ /\ lastRequest'.attempts = 2 => lastRequest'.slept = rate_limit_wait
           /\ (lastRequest'.attempts = 2 /\ ~lastRequest'.ok) =>
                  rate_limit_wait' =
                      Min(rate_limit_wait + RateLimitIncrement, RateLimitCeiling)
           /\ lastRequest'.ok => rate_limit_wait' = RateLimitBase ]_vars

\* C37: a request makes at most two HTTP attempts; the second is made only
\* when the first response is 429, after one backoff wait; when the second
\* fails too the request returns None without another wait or attempt.
C37_AtMostTwoAttempts ==
    /\ lastRequest.attempts <= 2
    /\ lastRequest.attempts = 2 =>
           /\ lastRequest.slept >= RateLimitBase
           /\ \E k \in {Len(window) - 1, Len(window)} :
                  /\ k >= 1
                  /\ window[k].status = 429
                  /\ window[k].slept = lastRequest.slept
                  /\ k < Len(window) => window[Len(window)].slept = 0
    /\ lastRequest.attempts = 1 => lastRequest.slept = 0
    /\ lastRequest.ok => window[Len(window)].status = 200

\* the retry after a 429 was answered with an error status: the request
\* failed after one wait
C37_Witness ==
    /\ lastRequest.attempts = 2
    /\ ~lastRequest.ok
    /\ lastRequest.slept > RateLimitBase
    /\ window[Len(window)].status = 500

(***************************************************************************)
(* Part 9: MultipleSongsPanel plans the sessions of a queue entry and the  *)
(* engine cuts the prompts into sessions of the size it was given.         *)
(***************************************************************************)
\* _calculate_session_count(total_prompts)
calculate_session_count_from_30(total_prompts) ==
    IF total_prompts >= 30 THEN 4
    ELSE IF total_prompts > 20 THEN 3
    ELSE IF total_prompts > 10 THEN 2
    ELSE 1
calculate_session_count(total_prompts) ==
    IF total_prompts > 30 THEN 4
    ELSE IF total_prompts > 20 THEN 3
    ELSE IF total_prompts > 10 THEN 2
    ELSE 1

\* math.ceil(a / b) for a >= 0, b > 0
ceil(a, b) == (a + b - 1) \div b

\* _run_queue_thread for an entry of n prompts: session_count and
\* songs_per_session, handed to create_songs_batch
plan_sessions ==
    \E n \in 1..MaxPrompts :
    \E c \in {calculate_session_count(n)} :
        /\ plan' = [n |-> n, session_count |-> c, songs_per_session |-> ceil(n, c)]
        /\ tierRun' = [session_index |-> 0, tabs |-> 0]
        /\ UNCHANGED runEntry

\* create_songs_batch on that plan: the next session, which opens one tab
\* for each of its prompts
engine_session ==
    LET size == session_size(plan.songs_per_session)
    IN  /\ plan.n > 0
        /\ tierRun.session_index < session_count(plan.n, size)
        /\ tierRun' = [session_index |-> tierRun.session_index + 1,
                       tabs |-> Len(session_prompts([i \in 1..plan.n |-> i],
                                                    tierRun.session_index, size))]
        /\ UNCHANGED <<plan, runEntry>>

NextTier ==
    \/ plan_sessions /\ OnlyPanel
    \/ engine_session /\ OnlyPanel

\* the planning of the panel and the sessions of the engine, for every
\* number of prompts
TierSpec == Init /\ [][NextTier]_vars

\* C27: the session count chosen for N prompts is 1 for N <= 10, 2 for
\* 11 <= N <= 20, 3 for 21 <= N <= 30 and 4 for N >= 31, the session size
\* passed to the engine is ceil(N / session_count), and for every N >= 1 the
\* number of sessions the engine then actually runs (ceil(N / that size))
\* equals the tier's session count; boundaries N = 10, 11, 20, 21, 30, 31
\* included.
C27_Tiers ==
    plan.n >= 1 =>
        /\ plan.n <= 10 => plan.session_count = 1
        /\ (11 <= plan.n /\ plan.n <= 20) => plan.session_count = 2
        /\ (21 <= plan.n /\ plan.n <= 30) => plan.session_count = 3
        /\ plan.n >= 31 => plan.session_count = 4
        /\ plan.songs_per_session * plan.session_count >= plan.n
        /\ (plan.songs_per_session - 1) * plan.session_count < plan.n
        /\ session_count(plan.n, session_size(plan.songs_per_session)) = plan.session_count
        /\ tierRun.session_index <= plan.session_count

\* the engine has begun the fourth and last session of 31 prompts
C27_Witness ==
    /\ plan.n = 31
    /\ tierRun.session_index = 4
    /\ tierRun.tabs = 7

\* C28: with the tiered session count and songs_per_session_actual =
\* ceil(N / session_count), the number of tabs opened in any single session
\* stays bounded by a constant independent of N (no session exceeds the
\* 10-prompt size of a full tier), for every N >= 1.
C28_TabsBounded ==
    tierRun.tabs <= 10

\* Python round(num / den) for num >= 0, den > 0: to the nearest integer,
\* a tie going to the even one
PyRound(num, den) ==
    LET q == num \div den
        r == num % den
    IN  IF 2 * r < den THEN q
        ELSE IF 2 * r > den THEN q + 1
        ELSE IF q % 2 = 0 THEN q ELSE q + 1

\* C29: for the k-th song of a batch (1-based, counting the songs of all
\* earlier sessions) out of total_songs, the percent passed to the progress
\* callback equals round(100 * k / total_songs), for every k and total_songs
\* with 1 <= k <= total_songs.
C29_PercentRounded ==
    \A i \in 1..Len(callbacks) :
        callbacks[i].status # "complete" =>
            \E k \in 1..Len(batchCall.prompts) :
                /\ batchCall.prompts[k].title = callbacks[i].title
                /\ callbacks[i].percent = PyRound(100 * k, Len(batchCall.prompts))

(***************************************************************************)
(* Part 10: _run_queue_thread runs a queue entry through the batch         *)
(* creator, with the history manager attached.                             *)
(***************************************************************************)
\* queue_manager.prompts: the pool the entries are cut from
RunnerPool == [i \in 1..(MaxBatchLen + 1) |-> BatchPrompt(i)]

\* successful = sum(1 for r in batch_results if r.get('success'))
successful(batch_results) ==
    Cardinality({ i \in 1..Len(batch_results) : batch_results[i].success })

\* _run_queue_thread for one entry: up to the first session of
\* create_songs_batch(prompts[start:end], ceil(n / session_count), ...,
\* auto_submit=True, history_manager=self.history_manager), and, once that
\* has returned or raised, update_queue_progress(queue_id, successful, status)
\* on the entry, whose total_songs is end - start
run_queue_thread ==
    \/ /\ batchPc \in {"returned", "raised"}
       /\ runEntry.some
       /\ ~runResult.some
       /\ \E n \in {IF batchPc = "raised" THEN 0 ELSE successful(results)} :
              runResult' =
                  [some |-> TRUE,
                   completed_count |-> Min(n, runEntry.end - runEntry.start),
                   status |-> IF n >= runEntry.end - runEntry.start
                              THEN "completed" ELSE "failed"]
       /\ UNCHANGED <<queueVars, writeVars, raceVars, batchVars, historyVars,
                      downloadVars, apiVars, panelVars, reconVars, quitVars>>
    \/ \E start \in 0..(Len(RunnerPool) - 1), end \in 1..Len(RunnerPool) :
       \E sliced \in {queue_prompts(RunnerPool, <<start, end>>)} :
           /\ batchPc = "idle"
           /\ start < end
           /\ Len(sliced) <= MaxBatchLen
           /\ runEntry' = [some |-> TRUE, start |-> start, end |-> end]
           /\ batchCall' = [prompts |-> sliced,
                            songs_per_session |->
                                ceil(Len(sliced),
                                     calculate_session_count(Len(sliced))),
                            auto_submit |-> TRUE, history |-> TRUE]
           /\ \/ /\ batchPc' = "session"     \* _initialize_driver() made a driver
                 /\ driver' = TRUE
              \/ /\ batchPc' = "raised"      \* create_stealth_driver raised
                 /\ UNCHANGED driver
           /\ UNCHANGED <<loop, results, session_results, callbacks, sessionLog,
                          stopCalled, lateTab, plan, tierRun>>
           /\ UNCHANGED <<queueVars, writeVars, raceVars, historyVars, downloadVars,
                          apiVars, runResult, reconVars, quitVars>>

NextRunner ==
    \/ run_queue_thread
    \/ create_songs_batch /\ OnlyBatch
    \/ run_session /\ OnlyBatch
    \/ fill_song_form /\ OnlyBatch
    \/ submit_song /\ OnlyBatch
    \/ stop /\ OnlyBatch

\* the batch creator called by the queue runner or by hand
RunnerSpec == Init /\ [][NextRunner]_vars

\* C30: the prompt_index stored in each Song Creation Record written while
\* executing a queue entry is the prompt's absolute position in the prompt
\* pool, i.e. entry.prompts_range start plus the song's offset within the
\* entry.
C30_AbsolutePromptIndex ==
    runEntry.some =>
        \A i \in 1..Len(records) :
            \E j \in runEntry.start..(runEntry.end - 1) :
                /\ RunnerPool[j + 1].title = records[i].title
                /\ records[i].prompt_index = j

\* the songs of the entry that ended with status success
EndedSuccess ==
    Cardinality({ i \in 1..Len(results) : results[i].success /\ ~results[i].pending })

\* C38: after the queue runner has run an entry, the entry is marked
\* completed only if every one of its total_songs songs ended with status
\* success; if a song ended pending or failed, or a session failed, it is
\* marked failed, and the stored completed_count is the number of songs that
\* ended with status success.
C38_EntryOutcome ==
    runResult.some =>
        /\ runResult.status = "completed" => EndedSuccess = runEntry.end - runEntry.start
        /\ EndedSuccess < runEntry.end - runEntry.start => runResult.status = "failed"
        /\ runResult.completed_count = EndedSuccess

(***************************************************************************)
(* Part 11: MultipleSongsPanel reconciles the songs that wait for an id    *)
(* with the clips the feed serves (_refresh_pending_status).  A title is   *)
(* the sequence of its characters.                                         *)
(***************************************************************************)
\* titles of the prompts, and titles and ids of the clips the feed serves
\* ("" is a clip without an id)
SongTitles == { <<"A">> }
ClipTitles == { <<"a", " ">>, <<"b">> }
ReconClipIds == { extract_song_id(u) : u \in Urls }
NoClip == [id |-> "", title |-> <<>>, owner |-> ""]

\* str.lower() on the characters of the titles
lower(t) ==
    [i \in 1..Len(t) |-> IF t[i] = "A" THEN "a" ELSE IF t[i] = "B" THEN "b" ELSE t[i]]

\* str.strip(): the blanks at both ends go
RECURSIVE strip(_)
strip(t) ==
    IF t = <<>> THEN t
    ELSE IF Head(t) = " " THEN strip(Tail(t))
    ELSE IF t[Len(t)] = " " THEN strip(SubSeq(t, 1, Len(t) - 1))
    ELSE t

\* variant: any clip with an id that is still free is taken
find_clip_any_title(title, clips, matched) ==
    IF \E k \in 1..Len(clips) : clips[k].id # "" /\ clips[k].id \notin matched
    THEN clips[CHOOSE k \in 1..Len(clips) : clips[k].id # "" /\ clips[k].id \notin matched]
    ELSE NoClip

\* _find_clip_for_pending: the first clip with an id that is not matched yet
\* and a title equal to the pending one after strip().lower()
RECURSIVE find_clip_for_pending(_, _, _)
find_clip_for_pending(title, clips, matched) ==
    IF clips = <<>> THEN NoClip
    ELSE LET clip == Head(clips)
         IN  IF clip.id = "" \/ clip.id \in matched
             THEN find_clip_for_pending(title, Tail(clips), matched)
             ELSE IF clip.title # <<>> /\ lower(strip(clip.title)) = lower(strip(title))
             THEN clip
             ELSE find_clip_for_pending(title, Tail(clips), matched)

\* grouped: the indices of the pending songs, account by account in the
\* order the accounts first appear
RECURSIVE grouped(_, _)
grouped(ps, todo) ==
    IF todo = <<>> THEN <<>>
    ELSE LET a == ps[Head(todo)].account_name
         IN  SelectSeq(todo, LAMBDA i : ps[i].account_name = a) \o
             grouped(ps, SelectSeq(todo, LAMBDA i : ps[i].account_name # a))

\* the loops of _refresh_pending_status over the pending songs in that
\* order: clipsOf[a] is what fetch_my_clips gave for account a (nothing when
\* no token was got), and _mark_pending_complete adds each id it is given
RECURSIVE refresh_items(_, _, _, _, _)
refresh_items(ps, order, clipsOf, matched, found) ==
    IF order = <<>> THEN [matched |-> matched, found |-> found]
    ELSE LET i == Head(order)
             clip == find_clip_for_pending(ps[i].title, clipsOf[ps[i].account_name],
                                           matched)
         IN  IF clip = NoClip
             THEN refresh_items(ps, Tail(order), clipsOf, matched, found)
             ELSE refresh_items(ps, Tail(order), clipsOf, matched \cup {clip.id},
                                Append(found, [index |-> i, clip |-> clip]))

\* [p for p in self.pending_songs if not p.get("completed")]
RECURSIVE not_completed(_, _, _)
not_completed(ps, done, i) ==
    IF i > Len(ps) THEN <<>>
    ELSE (IF i \in done THEN <<>> ELSE <<ps[i]>>) \o not_completed(ps, done, i + 1)

\* _refresh_pending_status: one poll.  got is the set of accounts for which
\* a session token was got and the request of fetch_my_clips succeeded.
refresh_pending_status ==
    /\ \/ /\ pending_songs = <<>>
          /\ lastPoll' = [NoPoll EXCEPT !.some = TRUE, !.usedBefore = usedIds]
          /\ UNCHANGED <<pending_songs, matched_song_ids, usedIds>>
       \/ /\ pending_songs # <<>>
          /\ \E got \in SUBSET ReconAccounts :
             \E r \in {refresh_items(pending_songs,
                           grouped(pending_songs, [i \in 1..Len(pending_songs) |-> i]),
                           [a \in ReconAccounts |-> IF a \in got THEN feed[a] ELSE <<>>],
                           matched_song_ids, <<>>)} :
                 /\ matched_song_ids' = r.matched
                 /\ usedIds' = usedIds \cup {r.found[k].clip.id : k \in 1..Len(r.found)}
                 /\ pending_songs' =
                        not_completed(pending_songs,
                                      {r.found[k].index : k \in 1..Len(r.found)}, 1)
                 /\ lastPoll' =
                        [some |-> TRUE, before |-> pending_songs, got |-> got,
                         found |-> r.found,
                         marked |-> [k \in 1..Len(r.found) |->
                                        [title |-> pending_songs[r.found[k].index].title,
                                         status |-> "success",
                                         song_id |-> r.found[k].clip.id]],
                         usedBefore |-> usedIds]
    /\ UNCHANGED <<feed, historyVars>>

\* the engine reports a song of a running entry: _record_history_entry, then
\* progress_callback, which is _handle_prompt_progress and _update_song_status
update_song_status ==
    \E a \in ReconAccounts, t \in SongTitles, submit \in SubmitOutcomes :
    \E o \in {tab_outcome(TRUE, TRUE, submit)} :
        /\ Len(records) < MaxReports
        /\ o.status_label = "pending" => Len(pending_songs) < MaxPending
        /\ add_creation_record([ song_id |-> IF o.song_id = None THEN "" ELSE o.song_id,
                                 title |-> t, prompt_index |-> 0, account_name |-> a,
                                 status |-> o.status_label,
                                 error_message |-> o.error_message ])
        /\ pending_songs' =
               IF o.status_label = "pending"
               THEN Append(pending_songs,
                           [queue_id |-> "q1", account_name |-> a, title |-> t])
               ELSE pending_songs
        /\ \E ids \in {IF o.status_label = "success" /\ o.song_id \notin {None, ""}
                       THEN {o.song_id} ELSE {}} :
               /\ matched_song_ids' = matched_song_ids \cup ids
               /\ usedIds' = usedIds \cup ids
        /\ lastPoll' = NoPoll
        /\ UNCHANGED feed

\* _parse_xml and _clear_parsed_data: both lists of the panel are emptied
parse_xml ==
    /\ pending_songs # <<>> \/ matched_song_ids # {}
    /\ pending_songs' = <<>>
    /\ matched_song_ids' = {}
    /\ lastPoll' = NoPoll
    /\ UNCHANGED <<feed, usedIds, historyVars>>

\* the clips the feeds serve, all accounts together
FeedLen == Len(feed["acc1"]) + Len(feed["acc2"])

\* the service finishes a clip of an account: /feed/v2 serves it first
feed_serves ==
    \E a \in ReconAccounts, t \in ClipTitles, id \in ReconClipIds \cup {""} :
        /\ FeedLen < MaxFeedLen
        /\ id # "" => \A b \in ReconAccounts : \A k \in 1..Len(feed[b]) : feed[b][k].id # id
        /\ feed' = [feed EXCEPT ![a] = <<[id |-> id, title |-> t, owner |-> a]>> \o @]
        /\ lastPoll' = NoPoll
        /\ UNCHANGED <<pending_songs, matched_song_ids, usedIds, historyVars>>

NextRecon ==
    \/ refresh_pending_status /\ OnlyRecon
    \/ update_song_status /\ OnlyRecon
    \/ parse_xml /\ OnlyRecon
    \/ feed_serves /\ OnlyRecon

\* the panel while entries run, clips appear and the user polls
ReconSpec == Init /\ [][NextRecon]_vars

\* the pending songs the last poll resolved, as indices of the list before it
Resolved == { lastPoll.found[k].index : k \in 1..Len(lastPoll.found) }

\* C31: reconciliation resolves a pending song only with a clip of the same
\* account whose title equals the pending title case-insensitively, and no
\* clip id is used twice within one process run: not one the engine reported
\* as success, not one matched to another pending song.
C31_MatchOnce ==
    lastPoll.some =>
        \A k \in 1..Len(lastPoll.found) :
            LET f == lastPoll.found[k]
                p == lastPoll.before[f.index]
            IN  /\ f.clip.owner = p.account_name
                /\ lower(f.clip.title) = lower(p.title)
                /\ f.clip.id \notin lastPoll.usedBefore
                /\ \A j \in 1..Len(lastPoll.found) :
                       j # k => lastPoll.found[j].clip.id # f.clip.id

\* a clip of the feeds that can resolve pending song p: it has an id and its
\* title is p's after strip().lower()
Resolves(clip, p) ==
    /\ clip.id # ""
    /\ clip.owner = p.account_name
    /\ lower(strip(clip.title)) = lower(strip(p.title))

\* C32: after a poll exactly the pending songs for which a matching clip was
\* found are marked success with the resolved id and removed from the
\* pending list; every other pending song (no matching clip, no session
\* token, empty clip list) stays in it unchanged and in order, and a poll
\* removes nothing else however often it runs.
C32_PollResolvesExactly ==
    /\ [](lastPoll.some =>
            /\ Len(lastPoll.marked) = Len(lastPoll.found)
            /\ \A k \in 1..Len(lastPoll.found) :
                   /\ lastPoll.marked[k] =
                          [title |-> lastPoll.before[lastPoll.found[k].index].title,
                           status |-> "success",
                           song_id |-> lastPoll.found[k].clip.id]
                   /\ Resolves(lastPoll.found[k].clip,
                               lastPoll.before[lastPoll.found[k].index])
                   /\ lastPoll.found[k].clip.id \in matched_song_ids
            /\ Len(pending_songs) = Len(lastPoll.before) - Cardinality(Resolved)
            /\ \A i \in 1..Len(lastPoll.before) :
                   /\ i \notin Resolved =>
                          pending_songs[i - Cardinality({j \in Resolved : j < i})]
                              = lastPoll.before[i]
                   /\ ( \/ lastPoll.before[i].account_name \notin lastPoll.got
                        \/ \A c \in 1..Len(feed[lastPoll.before[i].account_name]) :
                               ~Resolves(feed[lastPoll.before[i].account_name][c],
                                         lastPoll.before[i]) )
                          => i \notin Resolved)
    /\ [][lastPoll'.some => lastPoll'.before = pending_songs /\ feed' = feed]_vars

\* a poll found a clip for one of two pending songs and left the other
C32_Witness ==
    /\ lastPoll.some
    /\ Len(lastPoll.before) = 2
    /\ Len(lastPoll.found) = 1
    /\ Len(pending_songs) = 1
    /\ pending_songs[1].account_name \in lastPoll.got

\* C33: when reconciliation resolves a pending song, a new Song Creation
\* Record with the same title and account, status success and the resolved
\* song_id is added to the History Store, and the records already stored,
\* the pending one included, stay as they are.
C33_ResolutionRecorded ==
    [][ (lastPoll'.some /\ lastPoll'.found # <<>>) =>
            /\ Len(records') = Len(records) + Len(lastPoll'.found)
            /\ \A i \in 1..Len(records) :
                   records'[i + Len(lastPoll'.found)] = records[i]
            /\ \A k \in 1..Len(lastPoll'.found) :
                   \E i \in 1..Len(lastPoll'.found) :
                       /\ i <= Len(records')
                       /\ records'[i].title =
                              pending_songs[lastPoll'.found[k].index].title
                       /\ records'[i].account_name =
                              pending_songs[lastPoll'.found[k].index].account_name
                       /\ records'[i].status = "success"
                       /\ records'[i].song_id = lastPoll'.found[k].clip.id ]_vars

(***************************************************************************)
(* Part 12: the driver of a BatchSongCreator between the worker thread     *)
(* (create_songs_batch) and the UI thread (_on_stop_click), one bytecode   *)
(* level step at a time.  Drivers are numbered as they are made.           *)
(***************************************************************************)
\* "if self.driver: self.driver.quit(); self.driver = None", the body of both
\* _teardown_driver and stop, run by thread t: the test, then the call of
\* quit() on what self.driver holds by then, then the assignment
release_driver(t) ==
    LET goto(l) == quitPc' = [quitPc EXCEPT ![t] = l]
    IN  \/ /\ quitPc[t] = "test"
           /\ goto(IF drv # 0 THEN "quit" ELSE "idle")
           /\ UNCHANGED <<drv, made, quits, derefNone>>
        \/ /\ quitPc[t] = "quit"
           /\ IF drv = 0
              THEN /\ derefNone' = TRUE      \* AttributeError: None has no quit
                   /\ goto("idle")
                   /\ UNCHANGED quits
              ELSE /\ quits' = [quits EXCEPT ![drv] = @ + 1]
                   /\ goto("assign")
                   /\ UNCHANGED derefNone
           /\ UNCHANGED <<drv, made>>
        \/ /\ quitPc[t] = "assign"
           /\ drv' = 0
           /\ goto("idle")
           /\ UNCHANGED <<made, quits, derefNone>>

\* create_songs_batch on a new BatchSongCreator: _initialize_driver makes the
\* driver (self.driver is None on a new creator)
initialize_driver ==
    /\ quitPc.worker = "idle"
    /\ drv = 0
    /\ made < MaxDrivers
    /\ made' = made + 1
    /\ drv' = made + 1
    /\ quitPc' = [quitPc EXCEPT !.worker = "sessions"]
    /\ UNCHANGED <<quits, derefNone>>

\* the worker leaves the sessions: finally: self._teardown_driver()
teardown_driver ==
    \/ /\ quitPc.worker = "sessions"
       /\ quitPc' = [quitPc EXCEPT !.worker = "test"]
       /\ UNCHANGED <<drv, made, quits, derefNone>>
    \/ release_driver("worker")

\* _on_stop_click on the UI thread: self.creator.stop()
creator_stop ==
    \/ /\ quitPc.ui = "idle"
       /\ made > 0
       /\ quitPc' = [quitPc EXCEPT !.ui = "test"]
       /\ UNCHANGED <<drv, made, quits, derefNone>>
    \/ release_driver("ui")

NextQuit ==
    \/ initialize_driver /\ OnlyQuit
    \/ teardown_driver /\ OnlyQuit
    \/ creator_stop /\ OnlyQuit

\* batch calls one after another, with the user pressing stop at any moment
QuitSpec == Init /\ [][NextQuit]_vars

\* C39: the driver made for a batch call is quit exactly once: under every
\* interleaving of stop() with the worker's _teardown_driver no thread calls
\* quit() on a driver that was quit already, none calls it on None, and once
\* both threads are done the driver has been quit.
C39_QuitOnce ==
    /\ \A d \in 1..MaxDrivers : quits[d] <= 1
    /\ ~derefNone
    /\ \A d \in 1..made : (d # drv) => quits[d] = 1

====
